---------------------------- MODULE Spec2Model ----------------------------
(***************************************************************************)
(* Model of the request pipeline of app/main.py: the ASGI middleware       *)
(* json_sanitizer_middleware that sits in front of the FastAPI application *)
(* and the global RequestValidationError handler.                          *)
(*                                                                         *)
(* Text and bytes are sequences of symbols.  A symbol is one character     *)
(* (":", " ", ",", "}", "\"", a digit ...) or a whole word that the code   *)
(* only ever handles as a unit and that contains none of the characters    *)
(* the regular expressions of the code distinguish (a field name, an enum  *)
(* value, the literal null, a path segment).  "xFF" is a byte that is not  *)
(* valid UTF-8.                                                            *)
(***************************************************************************)
EXTENDS Integers, Sequences, FiniteSets, TLC

VARIABLES
    pc,             \* position of the request in the pipeline
    scope,          \* ASGI connection scope: type, path, method, headers
    wire,           \* the messages the transport's receive() returns, in order
    recv_calls,     \* how many times the transport's receive() has returned
    wrapped,        \* TRUE when the app was handed receive_wrapper
    body_parts,     \* nonlocal body_parts of receive_wrapper
    body_received,  \* nonlocal body_received of receive_wrapper
    delivered,      \* the messages the downstream app got from its receive callable
    exc_errors,     \* exc.errors() of the RequestValidationError, <<>> if none
    response,       \* the response of the handler or endpoint that answered
    request_json,   \* the JSON object posted to an /ai/tasks endpoint
    strict_task,    \* the task the AI endpoint works on (task_input.to_task())
    llm_calls,      \* the calls of llm_service._call_llm so far, in order
    db_tasks,       \* table tasks: id -> row
    db_user_stories,\* table user_stories: the ids of its rows
    task_seq,       \* autoincrement counter of table tasks
    story_seq,      \* autoincrement counter of table user_stories
    call,           \* the store operation that was served last
    tasks_total_hours, \* column tasks_total_hours of user_stories: id -> tenths of hours
    data_file,      \* contents of data/tasks_json.json: Tasks and last_id
    procs           \* the calls of task_manager in progress: caller -> locals

aiVars == <<request_json, strict_task, llm_calls>>

fileVars == <<data_file, procs>>

dbVars == <<db_tasks, db_user_stories, task_seq, story_seq, call, tasks_total_hours,
            fileVars>>

httpVars == <<scope, wire, recv_calls, wrapped, body_parts, body_received, delivered,
              exc_errors>>

vars == <<pc, response, httpVars, aiVars, dbVars>>

(***************************************************************************)
(* Bounds of the model.                                                    *)
(***************************************************************************)
MaxBodyLen == 2     \* longest enumerated body of a chunked request
MaxChunks == 2      \* most http.request messages one body is split into
MaxTextLen == 4     \* longest enumerated body of a single-chunk request
MaxKeys == 2        \* most fields of an enumerated task body
ExtraReads == 2     \* reads the app may issue beyond the messages of the wire

(***************************************************************************)
(* Text primitives.                                                        *)
(***************************************************************************)
\* Python's str \s on the symbols of the model.
IsSpace(c) == c \in {" ", "\n"}

StartsWith(s, p) == Len(s) >= Len(p) /\ SubSeq(s, 1, Len(p)) = p

\* Python's  p in s  for strings.
Contains(s, p) ==
    \E i \in 0..(Len(s) - Len(p)) : SubSeq(s, i + 1, i + Len(p)) = p

RECURSIVE Concat(_)
\* b"".join(parts) / "".join(parts)
Concat(parts) ==
    IF parts = <<>> THEN <<>> ELSE Head(parts) \o Concat(Tail(parts))

RECURSIVE JoinWith(_, _)
\* sep.join(parts)
JoinWith(sep, parts) ==
    IF parts = <<>> THEN <<>>
    ELSE IF Len(parts) = 1 THEN Head(parts)
    ELSE Head(parts) \o sep \o JoinWith(sep, Tail(parts))

\* bytes.decode("utf-8", errors="ignore"): undecodable bytes are dropped.
Decode(bytes) == SelectSeq(bytes, LAMBDA c : c # "xFF")

\* str.encode("utf-8")
Encode(text) == text

(***************************************************************************)
(* The rewrite rules of the sanitizer (receive_wrapper, lines 66-77).      *)
(***************************************************************************)
\* First index >= i of s that holds no whitespace (Len(s) + 1 if none): the
\* greedy \s* of the patterns.
RECURSIVE SkipSpace(_, _)
SkipSpace(s, i) ==
    IF i <= Len(s) /\ IsSpace(s[i]) THEN SkipSpace(s, i + 1) ELSE i

\* Last index of the match of  :\s*<closer>  that starts at i, 0 if none.
MatchEnd(s, i, closer) ==
    IF s[i] # ":" THEN 0
    ELSE LET k == SkipSpace(s, i + 1)
         IN  IF k <= Len(s) /\ s[k] = closer THEN k ELSE 0

\* The replacement strings ': null,' and ': null}'.
NullFill(closer) == <<":", " ", "null", closer>>

RECURSIVE ReSubFrom(_, _, _)
\* re.sub scanning from index i: leftmost matches, none overlapping.
ReSubFrom(s, i, closer) ==
    IF i > Len(s) THEN <<>>
    ELSE IF MatchEnd(s, i, closer) # 0
         THEN NullFill(closer) \o ReSubFrom(s, MatchEnd(s, i, closer) + 1, closer)
         ELSE <<s[i]>> \o ReSubFrom(s, i + 1, closer)

\* re.sub(r':\s*<closer>', ': null<closer>', s)
ReSub(s, closer) == ReSubFrom(s, 1, closer)

\* The rewrite without its second substitution.
SanitizeCommaOnly(body_str) == ReSub(body_str, ",")

\* Lines 70-71: the two substitutions, in this order.
Sanitize(body_str) == ReSub(ReSub(body_str, ","), "}")

\* Lines 66-75: join, decode, rewrite, encode.
SanitizeBody(parts) == Encode(Sanitize(Decode(Concat(parts))))

(***************************************************************************)
(* JSON decoding, as request.json() does it (json.loads on the body).  A   *)
(* decoded value is kept as its token sequence outside whitespace: two     *)
(* texts decode to the same value when their token sequences are equal.    *)
(***************************************************************************)
JsonPunct == {"{", "}", "[", "]", ":", ","}

\* json.loads also takes the constant NaN.
JsonLiterals == {"null", "true", "false", "NaN"}

Digits == {"0", "1", "2", "3", "4", "5", "6", "7", "8", "9"}

NumberSymbols == Digits \cup {"-", "+", ".", "e", "E"}

Tok(k, v) == [k |-> k, v |-> v]

ErrTok == Tok("err", <<>>)

\* First index >= i of s that holds no digit.
RECURSIVE SkipDigits(_, _)
SkipDigits(s, i) ==
    IF i <= Len(s) /\ s[i] \in Digits THEN SkipDigits(s, i + 1) ELSE i

\* The JSON number grammar: -?(0|[1-9]\d*)(\.\d+)?([eE][+-]?\d+)?
JsonNumberOk(run) ==
    LET a == IF run # <<>> /\ run[1] = "-" THEN 2 ELSE 1
        b == SkipDigits(run, a)
        intOk == b > a /\ (run[a] = "0" => b = a + 1)
        c == IF b <= Len(run) /\ run[b] = "." THEN SkipDigits(run, b + 1) ELSE b
        fracOk == c = b \/ c > b + 1
        d == IF c <= Len(run) /\ run[c] \in {"e", "E"}
             THEN IF c + 1 <= Len(run) /\ run[c + 1] \in {"+", "-"} THEN c + 2 ELSE c + 1
             ELSE c
        e == IF d > c THEN SkipDigits(run, d) ELSE c
        expOk == d = c \/ e > d
    IN  intOk /\ fracOk /\ expOk /\ e = Len(run) + 1

\* First index >= i of s that holds no number symbol.
RECURSIVE SkipNumber(_, _)
SkipNumber(s, i) ==
    IF i <= Len(s) /\ s[i] \in NumberSymbols THEN SkipNumber(s, i + 1) ELSE i

\* Index of the quote that closes the string opened before i, 0 if the string
\* is not closed or holds a control character or an undecodable byte.
RECURSIVE StringEnd(_, _)
StringEnd(s, i) ==
    IF i > Len(s) THEN 0
    ELSE IF s[i] = "\"" THEN i
    ELSE IF s[i] \in {"\n", "xFF"} THEN 0
    ELSE StringEnd(s, i + 1)

RECURSIVE JsonLexFrom(_, _)
\* The tokens of s from index i on; ErrTok ends the sequence where no token starts.
JsonLexFrom(s, i) ==
    IF i > Len(s) THEN <<>>
    ELSE IF IsSpace(s[i]) THEN JsonLexFrom(s, i + 1)
    ELSE IF s[i] \in JsonPunct THEN <<Tok("p", <<s[i]>>)>> \o JsonLexFrom(s, i + 1)
    ELSE IF s[i] \in JsonLiterals THEN <<Tok("l", <<s[i]>>)>> \o JsonLexFrom(s, i + 1)
    ELSE IF s[i] = "\""
         THEN LET e == StringEnd(s, i + 1)
              IN  IF e = 0 THEN <<ErrTok>>
                  ELSE <<Tok("s", SubSeq(s, i + 1, e - 1))>> \o JsonLexFrom(s, e + 1)
    ELSE IF s[i] \in NumberSymbols
         THEN LET e == SkipNumber(s, i)
              IN  IF JsonNumberOk(SubSeq(s, i, e - 1))
                  THEN <<Tok("n", SubSeq(s, i, e - 1))>> \o JsonLexFrom(s, e)
                  ELSE <<ErrTok>>
    ELSE <<ErrTok>>

IsPunct(toks, i, c) == i <= Len(toks) /\ toks[i] = Tok("p", <<c>>)

RECURSIVE ValueEnd(_, _)
RECURSIVE MembersEnd(_, _)
RECURSIVE ElementsEnd(_, _)
\* Index after the JSON value that starts at token i, 0 if none starts there.
ValueEnd(toks, i) ==
    IF i > Len(toks) THEN 0
    ELSE IF toks[i].k \in {"s", "n", "l"} THEN i + 1
    ELSE IF IsPunct(toks, i, "{")
         THEN IF IsPunct(toks, i + 1, "}") THEN i + 2 ELSE MembersEnd(toks, i + 1)
    ELSE IF IsPunct(toks, i, "[")
         THEN IF IsPunct(toks, i + 1, "]") THEN i + 2 ELSE ElementsEnd(toks, i + 1)
    ELSE 0

\* Index after the "}" of the object whose members start at token i, 0 if malformed.
MembersEnd(toks, i) ==
    IF i > Len(toks) \/ toks[i].k # "s" \/ ~IsPunct(toks, i + 1, ":") THEN 0
    ELSE LET e == ValueEnd(toks, i + 2)
         IN  IF e = 0 THEN 0
             ELSE IF IsPunct(toks, e, "}") THEN e + 1
             ELSE IF IsPunct(toks, e, ",") THEN MembersEnd(toks, e + 1)
             ELSE 0

\* Index after the "]" of the array whose elements start at token i, 0 if malformed.
ElementsEnd(toks, i) ==
    LET e == ValueEnd(toks, i)
    IN  IF e = 0 THEN 0
        ELSE IF IsPunct(toks, e, "]") THEN e + 1
        ELSE IF IsPunct(toks, e, ",") THEN ElementsEnd(toks, e + 1)
        ELSE 0

\* json.loads(body): ok and the tokens of the value, or not ok when it raises.
JsonLoads(body) ==
    LET toks == JsonLexFrom(body, 1)
    IN  IF toks # <<>> /\ toks[Len(toks)] # ErrTok /\ ValueEnd(toks, 1) = Len(toks) + 1
        THEN [ok |-> TRUE, toks |-> toks]
        ELSE [ok |-> FALSE, toks |-> <<>>]

(***************************************************************************)
(* ASGI messages and scopes.  A message is a record with every key; a key  *)
(* the transport leaves out holds the default the code reads for it        *)
(* (message.get("body", b""), message.get("more_body", False)).            *)
(***************************************************************************)
HttpRequest(body, more) == [type |-> "http.request", body |-> body, more_body |-> more]

Disconnect == [type |-> "http.disconnect", body |-> <<>>, more_body |-> FALSE]

LifespanStartup == [type |-> "lifespan.startup", body |-> <<>>, more_body |-> FALSE]

\* Line 56 when the wrapper reports a client disconnect once the body was
\* processed.
DisconnectTerminal == [type |-> "http.disconnect", body |-> <<>>, more_body |-> FALSE]

\* Line 56: the message receive_wrapper returns once the body was processed.
EmptyTerminal == HttpRequest(<<>>, FALSE)

AiPrefix == <<"/", "ai", "/">>

WriteMethods == {"POST", "PUT", "PATCH"}

AppJson == <<"application", "/", "json">>

RECURSIVE HeaderValue(_, _, _)
\* dict(scope.get("headers", [])).get(name, default): the last pair wins.
HeaderValue(headers, name, default) ==
    IF headers = <<>> THEN default
    ELSE LET last == headers[Len(headers)]
         IN  IF last[1] = name THEN last[2]
             ELSE HeaderValue(SubSeq(headers, 1, Len(headers) - 1), name, default)

\* The guard without its test of the method.
GuardAnyMethod(sc) ==
    /\ sc.type = "http"
    /\ StartsWith(sc.path, AiPrefix)
    /\ Contains(Decode(HeaderValue(sc.headers, "content-type", <<>>)), AppJson)

\* Lines 24-45: TRUE when __call__ reaches line 47 and wraps receive.
Guard(sc) ==
    /\ sc.type = "http"
    /\ StartsWith(sc.path, AiPrefix)
    /\ sc.method \in WriteMethods
    /\ Contains(Decode(HeaderValue(sc.headers, "content-type", <<>>)), AppJson)

(***************************************************************************)
(* Inputs: scopes, bodies and the ways the transport delivers a body.      *)
(***************************************************************************)
BodySymbols == {":", " ", ",", "}", "\""}

\* Every text of exactly n symbols.
Texts(n) == [1..n -> BodySymbols]

TextsUpTo(n) == UNION {Texts(k) : k \in 0..n}

\* {"a": , "b": 1}
ExEmptyFirst ==
    <<"{", "\"", "a", "\"", ":", " ", ",", " ", "\"", "b", "\"", ":", " ", "1", "}">>

\* {"a": 1, "b": }
ExEmptyLast ==
    <<"{", "\"", "a", "\"", ":", " ", "1", ",", " ", "\"", "b", "\"", ":", " ", "}">>

\* {"a": , "b": }
ExEmptyBoth ==
    <<"{", "\"", "a", "\"", ":", " ", ",", " ", "\"", "b", "\"", ":", " ", "}">>

\* {"a":":,"}   a well-formed object whose string value holds a colon and a comma
ExColonInString == <<"{", "\"", "a", "\"", ":", "\"", ":", ",", "\"", "}">>

\* {"a": "x", "b": 1}
ExWellFormed ==
    <<"{", "\"", "a", "\"", ":", " ", "\"", "x", "\"", ",", " ", "\"", "b", "\"", ":", " ", "1", "}">>

\* {"a": <undecodable byte>, }
ExBadByte == <<"{", "\"", "a", "\"", ":", "xFF", ",", "}">>

ExampleBodies ==
    {ExEmptyFirst, ExEmptyLast, ExEmptyBoth, ExColonInString, ExWellFormed, ExBadByte}

JsonHeader == <<"content-type", AppJson>>

JsonCharsetHeader == <<"content-type", AppJson \o <<";", " ", "charset=utf-8">> >>

TextHeader == <<"content-type", <<"text", "/", "plain">> >>

HeaderLists ==
    { <<>>, <<JsonHeader>>, <<JsonCharsetHeader>>, <<TextHeader>>,
      <<JsonHeader, TextHeader>>, <<TextHeader, JsonHeader>> }

Paths ==
    { <<"/", "ai", "/", "tasks", "/", "describe">>, <<"/", "tasks">>, <<"/", "ai">> }

Methods == {"POST", "PUT", "PATCH", "GET", "DELETE"}

HttpScopes ==
    [type : {"http"}, path : Paths, method : Methods, headers : HeaderLists]

LifespanScope == [type |-> "lifespan", path |-> <<>>, method |-> "", headers |-> <<>>]

\* POST /ai/tasks/describe with Content-Type: application/json
AiScope ==
    [type |-> "http", path |-> <<"/", "ai", "/", "tasks", "/", "describe">>,
     method |-> "POST", headers |-> <<JsonHeader>>]

\* POST /tasks with Content-Type: application/json
TasksScope ==
    [type |-> "http", path |-> <<"/", "tasks">>, method |-> "POST",
     headers |-> <<JsonHeader>>]

\* The n cut points 0 <= c[1] <= ... <= c[n-1] <= Len(body) of a body in n chunks.
Cuts(body, n) ==
    {c \in [1..(n - 1) -> 0..Len(body)] : \A i \in 1..(n - 2) : c[i] <= c[i + 1]}

\* The http.request messages of a body cut at c: more_body on all but the last.
ChunkMessages(body, n, c) ==
    [i \in 1..n |->
        HttpRequest(SubSeq(body, (IF i = 1 THEN 0 ELSE c[i - 1]) + 1,
                                 IF i = n THEN Len(body) ELSE c[i]),
                    i < n)]

\* A wire: the whole body in 1..MaxChunks messages, then nothing or a client
\* disconnect; or a client that disconnects before the last chunk.
Wires(body) ==
    UNION { UNION { { m, Append(m, Disconnect) }
                    \cup { Append(SubSeq(m, 1, k), Disconnect) : k \in 0..(n - 1) }
                  : m \in { ChunkMessages(body, n, c) : c \in Cuts(body, n) } }
          : n \in 1..MaxChunks }

(***************************************************************************)
(* The middleware.                                                         *)
(***************************************************************************)
NoResponse == [status_code |-> 0, msg |-> <<>>, detail |-> <<>>]

\* What _ensure_data_file_exists writes (task_manager.py lines 41-44).
EmptyFile == [Tasks |-> <<>>, last_id |-> 0]

\* No request on the store was made yet.
NoCall == [op |-> "", id |-> 0]

InitRequest(sc, w) ==
    /\ pc = "start"
    /\ scope = sc
    /\ wire = w
    /\ recv_calls = 0
    /\ wrapped = FALSE
    /\ body_parts = <<>>
    /\ body_received = FALSE
    /\ delivered = <<>>
    /\ exc_errors = <<>>
    /\ response = NoResponse
    /\ request_json = <<>> /\ strict_task = <<>> /\ llm_calls = <<>>
    /\ db_tasks = <<>> /\ db_user_stories = {} /\ task_seq = 0 /\ story_seq = 0
    /\ call = NoCall
    /\ tasks_total_hours = <<>>
    /\ data_file = EmptyFile
    /\ procs = <<>>

\* The whole body in one message, alone or followed by a client disconnect.
WholeWires(body) ==
    { <<HttpRequest(body, FALSE)>>, <<HttpRequest(body, FALSE), Disconnect>> }

\* Requests on every scope, each example body in one message; requests the
\* guard accepts, every short body and every example in every chunking; and
\* requests the guard accepts with every body up to MaxTextLen in one message.
Init ==
    \/ \E sc \in HttpScopes, b \in ExampleBodies :
          \E w \in WholeWires(b) : InitRequest(sc, w)
    \/ InitRequest(LifespanScope, <<LifespanStartup>>)
    \/ \E b \in TextsUpTo(MaxBodyLen) \cup ExampleBodies :
          \E w \in Wires(b) : InitRequest(AiScope, w)
    \/ \E b \in TextsUpTo(MaxTextLen) : InitRequest(AiScope, <<HttpRequest(b, FALSE)>>)

\* The app may read as long as the transport has a message for it, and a few
\* times more.
MayRead == Len(delivered) < Len(wire) + ExtraReads

\* json_sanitizer_middleware.__call__, lines 23-49 and 80: decide whether the
\* app gets receive or receive_wrapper, then call the app.
MiddlewareCall ==
    /\ pc = "start"
    /\ pc' = "app"
    /\ wrapped' = Guard(scope)
    /\ body_parts' = <<>>
    /\ body_received' = FALSE
    /\ UNCHANGED <<scope, wire, recv_calls, delivered, exc_errors, response>>
    /\ UNCHANGED <<aiVars, dbVars>>

\* The app awaits the original receive (lines 25, 31, 37, 44): the transport's
\* next message reaches it as it is.  receive() does not return when the
\* transport has nothing more.
PassThroughReceive ==
    /\ pc = "app"
    /\ ~wrapped
    /\ MayRead
    /\ recv_calls < Len(wire)
    /\ recv_calls' = recv_calls + 1
    /\ delivered' = Append(delivered, wire[recv_calls + 1])
    /\ UNCHANGED <<pc, scope, wire, wrapped, body_parts, body_received, exc_errors, response>>
    /\ UNCHANGED <<aiVars, dbVars>>

\* The message built at lines 73-77 from the parts gathered so far.
SanitizedMessage(parts) == HttpRequest(SanitizeBody(parts), FALSE)

\* The app awaits receive_wrapper, lines 51-78.
ReceiveWrapper ==
    /\ pc = "app"
    /\ wrapped
    /\ MayRead
    /\ IF body_received
       THEN /\ delivered' = Append(delivered, EmptyTerminal)
            /\ UNCHANGED <<recv_calls, body_parts, body_received>>
       ELSE /\ recv_calls < Len(wire)
            /\ LET message == wire[recv_calls + 1]
                   parts == Append(body_parts, message.body)
               IN  /\ recv_calls' = recv_calls + 1
                   /\ IF message.type = "http.request"
                      THEN /\ body_parts' = parts
                           /\ IF ~message.more_body
                              THEN /\ body_received' = TRUE
                                   /\ delivered' = Append(delivered, SanitizedMessage(parts))
                              ELSE /\ body_received' = FALSE
                                   /\ delivered' = Append(delivered, message)
                      ELSE /\ delivered' = Append(delivered, message)
                           /\ UNCHANGED <<body_parts, body_received>>
    /\ UNCHANGED <<pc, scope, wire, wrapped, exc_errors, response>>
    /\ UNCHANGED <<aiVars, dbVars>>

Next ==
    \/ MiddlewareCall
    \/ PassThroughReceive
    \/ ReceiveWrapper

Spec == Init /\ [][Next]_vars

(***************************************************************************)
(* The schemas the endpoints declare (app/models) and the failure records  *)
(* that decoding and validating a body against them produces.              *)
(***************************************************************************)
PriorityValues == <<"baja", "media", "alta", "bloqueante">>

StatusValues == <<"pendiente", "en_progreso", "en_revision", "completada">>

\* task_category of task_model.py
TaskCategory ==
    <<"Frontend", "Backend", "Testing", "Infra", "DevOps", "Database", "Security",
      "API", "UI_UX", "Documentation", "Architecture", "Mobile", "Cloud", "Analytics">>

SeqToSet(q) == {q[i] : i \in DOMAIN q}

\* One declared field: its name, its type ("str", "literal", "float", "int",
\* "any"), whether a body must hold it, whether null is accepted, the values of
\* a Literal, min_length, whether gt=0 is declared, and whether the "before"
\* validator empty_string_to_none applies.
Field(name, type, required, nullable, allowed, min_length, gt, empty_to_none) ==
    [name |-> name, type |-> type, required |-> required, nullable |-> nullable,
     allowed |-> allowed, min_length |-> min_length, gt |-> gt,
     empty_to_none |-> empty_to_none]

\* class task of task_model.py: the model the handler reads its field names
\* and its Literal annotations from.
TaskModel ==
    << Field("id", "int", FALSE, TRUE, <<>>, 0, FALSE, FALSE),
       Field("title", "str", TRUE, FALSE, <<>>, 0, FALSE, FALSE),
       Field("description", "str", FALSE, FALSE, <<>>, 0, FALSE, FALSE),
       Field("priority", "literal", TRUE, FALSE, PriorityValues, 0, FALSE, FALSE),
       Field("effort_hours", "float", FALSE, TRUE, <<>>, 0, TRUE, FALSE),
       Field("status", "literal", TRUE, FALSE, StatusValues, 0, FALSE, FALSE),
       Field("assigned_to", "str", TRUE, FALSE, <<>>, 0, FALSE, FALSE),
       Field("category", "literal", FALSE, TRUE, TaskCategory, 0, FALSE, TRUE),
       Field("risk_analysis", "str", FALSE, TRUE, <<>>, 0, FALSE, TRUE),
       Field("risk_mitigation", "str", FALSE, TRUE, <<>>, 0, FALSE, TRUE) >>

\* class task_ai_input of task_model.py, the body of POST /ai/tasks/*.
TaskAiInput ==
    << Field("id", "int", FALSE, TRUE, <<>>, 0, FALSE, FALSE),
       Field("title", "str", TRUE, FALSE, <<>>, 0, FALSE, FALSE),
       Field("description", "str", FALSE, FALSE, <<>>, 0, FALSE, FALSE),
       Field("priority", "literal", TRUE, FALSE, PriorityValues, 0, FALSE, FALSE),
       Field("effort_hours", "any", FALSE, TRUE, <<>>, 0, FALSE, FALSE),
       Field("status", "literal", TRUE, FALSE, StatusValues, 0, FALSE, FALSE),
       Field("assigned_to", "str", TRUE, FALSE, <<>>, 0, FALSE, FALSE),
       Field("category", "str", FALSE, TRUE, <<>>, 0, FALSE, TRUE),
       Field("risk_analysis", "str", FALSE, TRUE, <<>>, 0, FALSE, TRUE),
       Field("risk_mitigation", "str", FALSE, TRUE, <<>>, 0, FALSE, TRUE) >>

\* class task_create(task_base) of task_schema.py, the body of POST /tasks.
TaskCreate ==
    << Field("title", "str", TRUE, FALSE, <<>>, 1, FALSE, FALSE),
       Field("description", "str", FALSE, FALSE, <<>>, 0, FALSE, FALSE),
       Field("priority", "literal", FALSE, FALSE, PriorityValues, 0, FALSE, FALSE),
       Field("effort_hours", "float", FALSE, TRUE, <<>>, 0, TRUE, FALSE),
       Field("status", "literal", FALSE, FALSE, StatusValues, 0, FALSE, FALSE),
       Field("assigned_to", "str", TRUE, FALSE, <<>>, 1, FALSE, FALSE),
       Field("category", "str", FALSE, TRUE, <<>>, 0, FALSE, TRUE),
       Field("risk_analysis", "str", FALSE, TRUE, <<>>, 0, FALSE, TRUE),
       Field("risk_mitigation", "str", FALSE, TRUE, <<>>, 0, FALSE, TRUE),
       Field("user_story_id", "int", FALSE, TRUE, <<>>, 0, FALSE, FALSE) >>

\* class task_update of task_schema.py, the body of PUT /tasks/{task_id}.
TaskUpdate ==
    << Field("title", "str", FALSE, TRUE, <<>>, 1, FALSE, FALSE),
       Field("description", "str", FALSE, TRUE, <<>>, 0, FALSE, FALSE),
       Field("priority", "literal", FALSE, TRUE, PriorityValues, 0, FALSE, FALSE),
       Field("effort_hours", "float", FALSE, TRUE, <<>>, 0, TRUE, FALSE),
       Field("status", "literal", FALSE, TRUE, StatusValues, 0, FALSE, FALSE),
       Field("assigned_to", "str", FALSE, TRUE, <<>>, 1, FALSE, FALSE),
       Field("category", "str", FALSE, TRUE, <<>>, 0, FALSE, TRUE),
       Field("risk_analysis", "str", FALSE, TRUE, <<>>, 0, FALSE, TRUE),
       Field("risk_mitigation", "str", FALSE, TRUE, <<>>, 0, FALSE, TRUE),
       Field("user_story_id", "int", FALSE, TRUE, <<>>, 0, FALSE, FALSE) >>

\* The schema of the body parameter of the route a scope is dispatched to.
SchemaOf(sc) ==
    IF StartsWith(sc.path, AiPrefix) THEN TaskAiInput
    ELSE IF sc.method = "PUT" THEN TaskUpdate
    ELSE TaskCreate

RECURSIVE MembersFrom(_, _)
\* The members of the object whose first key is token i: key and value tokens.
MembersFrom(toks, i) ==
    IF i > Len(toks) \/ toks[i].k # "s" THEN <<>>
    ELSE LET e == ValueEnd(toks, i + 2)
         IN  <<[key |-> toks[i].v, val |-> SubSeq(toks, i + 2, e - 1)]>>
             \o (IF IsPunct(toks, e, ",") THEN MembersFrom(toks, e + 1) ELSE <<>>)

\* isinstance(value, dict) for a decoded value.
IsDict(toks) == toks # <<>> /\ toks[1] = Tok("p", <<"{">>)

\* The dict a decoded value is: its members in order (<<>> if it is no dict).
DictOf(toks) == IF IsDict(toks) THEN MembersFrom(toks, 2) ELSE <<>>

\* key in d
HasKey(d, key) == \E i \in DOMAIN d : d[i].key = <<key>>

\* d[key]: the value of the last member with that key.
ValueOf(d, key) ==
    d[CHOOSE i \in DOMAIN d :
        d[i].key = <<key>> /\ \A j \in DOMAIN d : d[j].key = <<key>> => j <= i].val

\* A failure record of exc.errors(): type, loc and msg.  The position a
\* json_invalid record carries in its loc is written "#".
Err(type, loc, msg) == [type |-> type, loc |-> loc, msg |-> msg]

ErrJsonInvalid == Err(<<"json", "_", "invalid">>, <<"body", "#">>, <<"JSON decode error">>)

ErrBodyMissing == Err(<<"missing">>, <<"body">>, <<"Field required">>)

ErrNotDict ==
    Err(<<"model", "_", "attributes", "_", "type">>, <<"body">>,
        <<"Input should be a ", "valid dictionary", " or object to extract fields from">>)

ErrMissing(f) == Err(<<"missing">>, <<"body", f>>, <<"Field required">>)

ErrStringType(f) ==
    Err(<<"string", "_", "type">>, <<"body", f>>, <<"Input should be a ", "valid string">>)

ErrStringTooShort(f) ==
    Err(<<"string", "_", "too", "_", "short">>, <<"body", f>>,
        <<"String should have at least 1 character">>)

\* "Input should be 'baja', 'media', 'alta' or 'bloqueante'"
ErrLiteral(f, allowed) ==
    Err(<<"literal", "_", "error">>, <<"body", f>>,
        <<"Input should be ">>
        \o JoinWith(<<", ">>, [i \in 1..(Len(allowed) - 1) |-> <<"'", allowed[i], "'">>])
        \o <<" or ", "'", allowed[Len(allowed)], "'">>)

ErrFloatParsing(f) ==
    Err(<<"float", "_", "parsing">>, <<"body", f>>,
        <<"Input should be a ", "valid number", ", unable to parse string as a number">>)

ErrFloatType(f) ==
    Err(<<"float", "_", "type">>, <<"body", f>>, <<"Input should be a ", "valid number">>)

ErrGreaterThan(f) ==
    Err(<<"greater", "_", "than">>, <<"body", f>>,
        <<"Input should be ", "greater than", " 0">>)

ErrIntParsing(f) ==
    Err(<<"int", "_", "parsing">>, <<"body", f>>,
        <<"Input should be a ", "valid integer", ", unable to parse string as an integer">>)

\* A number literal greater than 0: no sign and a digit other than 0 in it.
IsPositive(num) ==
    /\ num[1] # "-"
    /\ \E i \in DOMAIN num :
          /\ num[i] \in Digits \ {"0"}
          /\ \A j \in 1..i : num[j] \notin {"e", "E"}

\* The failure records of one field whose value is the token sequence val.
FieldErrors(fld, val) ==
    LET k == val[1].k
        null == val = <<Tok("l", <<"null">>)>>
               \/ (fld.empty_to_none /\ val = <<Tok("s", <<>>)>>)
        gtErr(num) == IF fld.gt /\ ~IsPositive(num) THEN <<ErrGreaterThan(fld.name)>> ELSE <<>>
    IN  IF fld.type = "any" THEN <<>>
        ELSE IF null /\ fld.nullable THEN <<>>
        ELSE IF fld.type = "str"
             THEN IF k # "s" THEN <<ErrStringType(fld.name)>>
                  ELSE IF Len(val[1].v) < fld.min_length THEN <<ErrStringTooShort(fld.name)>>
                  ELSE <<>>
        ELSE IF fld.type = "literal"
             THEN IF k = "s" /\ Len(val[1].v) = 1 /\ val[1].v[1] \in SeqToSet(fld.allowed)
                  THEN <<>> ELSE <<ErrLiteral(fld.name, fld.allowed)>>
        ELSE IF fld.type = "float"
             THEN IF k = "n" THEN gtErr(val[1].v)
                  ELSE IF val = <<Tok("l", <<"true">>)>> THEN <<>>
                  ELSE IF val = <<Tok("l", <<"false">>)>> THEN gtErr(<<"0">>)
                  ELSE IF val = <<Tok("l", <<"NaN">>)>> THEN gtErr(<<"0">>)
                  ELSE IF k = "s"
                       THEN IF JsonNumberOk(val[1].v) THEN gtErr(val[1].v)
                            ELSE <<ErrFloatParsing(fld.name)>>
                  ELSE <<ErrFloatType(fld.name)>>
        ELSE IF k = "n" /\ \A i \in DOMAIN val[1].v : val[1].v[i] \in Digits \cup {"-"}
             THEN <<>> ELSE <<ErrIntParsing(fld.name)>>

\* The records with the value that was rejected under the key input, as
\* exc.errors() carries it.
WithInput(errs, input) ==
    [i \in DOMAIN errs |->
        [type |-> errs[i].type, loc |-> errs[i].loc, msg |-> errs[i].msg, input |-> input]]

\* The tokens of the values of a dict, the input of a record of a missing field.
DictInput(d) == Concat([i \in DOMAIN d |-> d[i].val])

RECURSIVE SchemaErrors(_, _, _)
\* The failure records of a dict against a schema, field by field in
\* declaration order, from field i on.
SchemaErrors(schema, d, i) ==
    IF i > Len(schema) THEN <<>>
    ELSE (IF HasKey(d, schema[i].name)
          THEN WithInput(FieldErrors(schema[i], ValueOf(d, schema[i].name)),
                         ValueOf(d, schema[i].name))
          ELSE IF schema[i].required
               THEN WithInput(<<ErrMissing(schema[i].name)>>, DictInput(d))
               ELSE <<>>)
         \o SchemaErrors(schema, d, i + 1)

\* What the route does with the body it read, for the parameter
\* task_input: <schema> : decode it, then validate it.  <<>> when it is valid.
Validate(schema, body) ==
    IF body = <<>> THEN WithInput(<<ErrBodyMissing>>, <<Tok("l", <<"null">>)>>)
    ELSE IF ~JsonLoads(body).ok THEN WithInput(<<ErrJsonInvalid>>, <<>>)
    ELSE IF ~IsDict(JsonLoads(body).toks) THEN WithInput(<<ErrNotDict>>, JsonLoads(body).toks)
    ELSE SchemaErrors(schema, DictOf(JsonLoads(body).toks), 1)

(***************************************************************************)
(* validation_exception_handler (main.py, lines 91-193).  A message is a   *)
(* sequence of pieces of text; the pieces are cut so that every substring  *)
(* or prefix the code looks for is a run of whole pieces.                  *)
(***************************************************************************)
\* str.lower() on the pieces of a failure record.
Lower(text) ==
    [i \in DOMAIN text |->
        IF text[i] = "Input should be " THEN "input should be "
        ELSE IF text[i] = "Input should be a " THEN "input should be a "
        ELSE IF text[i] = "Field required" THEN "field required"
        ELSE IF text[i] = "JSON decode error" THEN "json decode error"
        ELSE IF text[i] = "String should have at least 1 character"
             THEN "string should have at least 1 character"
        ELSE text[i]]

\* Line 102
BodyParam == "task_input"

\* Lines 94-105: the dict the handler looks for the fields in.
BodyData(body) ==
    LET loaded == JsonLoads(body)
        payload == IF loaded.ok THEN DictOf(loaded.toks) ELSE <<>>
    IN  IF ~HasKey(payload, BodyParam) THEN payload
        ELSE DictOf(ValueOf(payload, BodyParam))

\* The names of the task model with id among them.
RequiredFieldsWithId == [i \in DOMAIN TaskModel |-> TaskModel[i].name]

\* Line 110: every field of the task model except id, in declaration order.
RequiredFields ==
    LET names == [i \in DOMAIN TaskModel |-> TaskModel[i].name]
    IN  SelectSeq(names, LAMBDA n : n # "id")

\* Line 112
MissingFields(body) ==
    SelectSeq(RequiredFields, LAMBDA f : ~HasKey(BodyData(body), f))

\* The values of priority, whatever the field.
LiteralArgsOfPriority(name) == PriorityValues

\* get_args(TaskModel.model_fields[name].annotation)
LiteralArgs(name) ==
    TaskModel[CHOOSE i \in DOMAIN TaskModel : TaskModel[i].name = name].allowed

\* The clause of line 124 in the place of the clause of line 122.
ClauseMayorSwapped == <<"effort_hours", " debe ser numérico">>

\* Line 122
ClauseMayor == <<"effort_hours", " debe ser mayor a 0">>

\* Lines 124 and 174
ClauseNumerico == <<"effort_hours", " debe ser numérico">>

\* Lines 129-130 and 135-136
ClauseUnoDe(name) ==
    <<name, " debe ser uno de: ">>
    \o JoinWith(<<", ">>, [i \in DOMAIN LiteralArgs(name) |-> <<LiteralArgs(name)[i]>>])

\* Line 150
ClauseVacio(field) == <<field, " tiene valor vacío o ", "formato inválido">>

\* Line 162
ClauseComillas(field) ==
    <<field, " tiene ", "formato inválido", ": debe ser texto entre comillas dobles">>

\* Lines 144-145
AllFields ==
    <<"title", "description", "priority", "status", "assigned_to", "category",
      "risk_analysis", "risk_mitigation", "effort_hours">>

\* Lines 153-154 when effort_hours is among the fields.
StringFieldsWithEffort ==
    <<"title", "description", "priority", "status", "assigned_to", "category",
      "risk_analysis", "risk_mitigation", "effort_hours">>

\* Lines 153-154
StringFields ==
    <<"title", "description", "priority", "status", "assigned_to", "category",
      "risk_analysis", "risk_mitigation">>

\* The text  "<field>"\s*:\s*  matched at index i: the index after it, 0 if it
\* does not match there.
KeyColonEnd(raw, i, field) ==
    IF i + 2 <= Len(raw) /\ raw[i] = "\"" /\ raw[i + 1] = field /\ raw[i + 2] = "\""
    THEN LET j == SkipSpace(raw, i + 3)
         IN  IF j <= Len(raw) /\ raw[j] = ":" THEN SkipSpace(raw, j + 1) ELSE 0
    ELSE 0

\* Line 148-149: re.search(rf'"{field}"\s*:\s*[,}}]', raw)
SearchEmpty(raw, field) ==
    \E i \in DOMAIN raw :
        LET k == KeyColonEnd(raw, i, field)
        IN  k # 0 /\ k <= Len(raw) /\ raw[k] \in {",", "}"}

\* First index >= i of raw that holds a newline (Len(raw) + 1 if none).
RECURSIVE LineEnd(_, _)
LineEnd(raw, i) ==
    IF i <= Len(raw) /\ raw[i] # "\n" THEN LineEnd(raw, i + 1) ELSE i

\* str.lstrip()
RECURSIVE LStrip(_)
LStrip(text) ==
    IF text # <<>> /\ IsSpace(Head(text)) THEN LStrip(Tail(text)) ELSE text

\* The match of  "<field>"\s*:\s*(.+)  at index i: whether it matches and its
\* group 1.  The greedy \s* takes all the whitespace after the colon and (.+)
\* the rest of the line; when only whitespace follows the colon, \s* gives
\* back up to the last symbol that is no newline, which (.+) then takes.
ValueMatchAt(raw, i, field) ==
    LET k == KeyColonEnd(raw, i, field)
        colon == SkipSpace(raw, i + 3)
        blanks == {q \in (colon + 1)..Len(raw) : raw[q] # "\n"}
    IN  IF k = 0 THEN [found |-> FALSE, group |-> <<>>]
        ELSE IF k <= Len(raw)
             THEN [found |-> TRUE, group |-> SubSeq(raw, k, LineEnd(raw, k) - 1)]
        ELSE IF blanks # {}
             THEN LET q == CHOOSE q \in blanks : \A r \in blanks : r <= q
                  IN  [found |-> TRUE, group |-> SubSeq(raw, q, LineEnd(raw, q) - 1)]
        ELSE [found |-> FALSE, group |-> <<>>]

\* Line 158: re.search(rf'"{field}"\s*:\s*(.+)', raw), the leftmost match.
SearchValue(raw, field) ==
    LET at == {i \in DOMAIN raw : ValueMatchAt(raw, i, field).found}
    IN  IF at = {} THEN [found |-> FALSE, group |-> <<>>]
        ELSE ValueMatchAt(raw, CHOOSE i \in at : \A j \in at : i <= j, field)

\* The class [^,}\]\s] of line 166.
IsTokenSymbol(c) == c \notin {",", "}", "]"} /\ ~IsSpace(c)

\* First index >= i of raw that holds no symbol of the class.
RECURSIVE TokenEnd(_, _)
TokenEnd(raw, i) ==
    IF i <= Len(raw) /\ IsTokenSymbol(raw[i]) THEN TokenEnd(raw, i + 1) ELSE i

\* Line 166: re.search(r'"effort_hours"\s*:\s*([^,}\]\s]+)', raw), the
\* leftmost match and its group 1.
SearchEffort(raw) ==
    LET ok(i) == LET k == KeyColonEnd(raw, i, "effort_hours")
                 IN  k # 0 /\ k <= Len(raw) /\ IsTokenSymbol(raw[k])
        at == {i \in DOMAIN raw : ok(i)}
    IN  IF at = {} THEN [found |-> FALSE, group |-> <<>>]
        ELSE LET k == KeyColonEnd(raw, CHOOSE i \in at : \A j \in at : i <= j, "effort_hours")
             IN  [found |-> TRUE, group |-> SubSeq(raw, k, TokenEnd(raw, k) - 1)]

\* The pattern of line 172 cut down to an optional minus and digits.
IsNumericIntegerOnly(val) ==
    LET a == IF val # <<>> /\ val[1] = "-" THEN 2 ELSE 1
    IN  a <= Len(val) /\ SkipDigits(val, a) = Len(val) + 1

\* Line 172: re.fullmatch(r'-?(?:\d+(?:\.\d*)?|\.\d+)(?:[eE][+\-]?\d+)?', val)
IsNumeric(val) ==
    LET a == IF val # <<>> /\ val[1] = "-" THEN 2 ELSE 1
        b == SkipDigits(val, a)
        c == IF b <= Len(val) /\ val[b] = "." THEN SkipDigits(val, b + 1) ELSE b
        mantissaOk == b > a \/ c > b + 1
        d == IF c <= Len(val) /\ val[c] \in {"e", "E"}
             THEN IF c + 1 <= Len(val) /\ val[c + 1] \in {"+", "-"} THEN c + 2 ELSE c + 1
             ELSE c
        e == IF d > c THEN SkipDigits(val, d) ELSE c
    IN  mantissaOk /\ (d = c \/ e > d) /\ e = Len(val) + 1

\* any(piece in m for m in msgs)
AnyContains(msgs, piece) == \E i \in DOMAIN msgs : Contains(msgs[i], piece)

RECURSIVE ScanEmpty(_, _, _)
\* Lines 146-150, from field i of AllFields on.
ScanEmpty(raw, i, msgs) ==
    IF i > Len(AllFields) THEN msgs
    ELSE ScanEmpty(raw, i + 1,
                   IF SearchEmpty(raw, AllFields[i])
                   THEN Append(msgs, ClauseVacio(AllFields[i])) ELSE msgs)

RECURSIVE ScanStrings(_, _, _)
\* Lines 155-162, from field i of StringFields on.
ScanStrings(raw, i, msgs) ==
    IF i > Len(StringFields) THEN msgs
    ELSE LET field == StringFields[i]
             m == SearchValue(raw, field)
             after == LStrip(m.group)
             flagged == /\ ~AnyContains(msgs, <<field>>)
                        /\ m.found
                        /\ after # <<>>
                        /\ after[1] \notin {"\"", ",", "}"}
         IN  ScanStrings(raw, i + 1,
                         IF flagged THEN Append(msgs, ClauseComillas(field)) ELSE msgs)

\* Lines 165-174
ScanEffort(raw, msgs) ==
    LET m == SearchEffort(raw)
    IN  IF /\ ~AnyContains(msgs, <<"effort_hours">>)
           /\ m.found
           /\ m.group # <<>>
           /\ m.group[1] # "\""
           /\ ~IsNumeric(m.group)
        THEN Append(msgs, ClauseNumerico) ELSE msgs

\* Lines 139-176: the re-scan of the raw body on a json_invalid record.
Rescan(body, msgs) ==
    LET raw == Decode(body)
    IN  ScanEffort(raw, ScanStrings(raw, 1, ScanEmpty(raw, 1, msgs)))

\* Lines 117-176: what one failure record adds to invalid_msgs.
ErrorClause(err, body, msgs) ==
    LET type_name == Lower(err.type)
        msg_text == Lower(err.msg)
    IN  IF "effort_hours" \in SeqToSet(err.loc)
        THEN IF type_name = <<"greater", "_", "than">> \/ Contains(msg_text, <<"greater than">>)
             THEN Append(msgs, ClauseMayor)
             ELSE IF \/ Contains(msg_text, <<"valid number">>)
                     \/ Contains(type_name, <<"parsing">>)
                     \/ Contains(type_name, <<"float">>)
                     \/ Contains(type_name, <<"int">>)
                  THEN Append(msgs, ClauseNumerico)
                  ELSE msgs
        ELSE IF "priority" \in SeqToSet(err.loc) THEN Append(msgs, ClauseUnoDe("priority"))
        ELSE IF "status" \in SeqToSet(err.loc) THEN Append(msgs, ClauseUnoDe("status"))
        ELSE IF type_name = <<"json", "_", "invalid">> THEN Rescan(body, msgs)
        ELSE msgs

RECURSIVE InvalidMsgs(_, _, _, _)
\* Lines 115-176: the loop over exc.errors(), from record i on.
InvalidMsgs(errors, body, i, msgs) ==
    IF i > Len(errors) THEN msgs
    ELSE InvalidMsgs(errors, body, i + 1, ErrorClause(errors[i], body, msgs))

\* The test of line 182 when it never succeeds.
HasFormatErrorNever(msgs) == FALSE

\* Line 182: a format error or a numeric effort_hours error was detected.
HasFormatError(msgs) ==
    \/ \E i \in DOMAIN msgs : StartsWith(msgs[i], ClauseNumerico)
    \/ \E i \in DOMAIN msgs : Contains(msgs[i], <<"formato inválido">>)

\* Lines 186 and 189
MissingPart(missing) ==
    <<"Faltan los siguientes campos requeridos: ">>
    \o JoinWith(<<", ">>, [i \in DOMAIN missing |-> <<missing[i]>>])

\* Lines 179-189 when the clauses are dropped whenever a field is missing.
PartsMissingOnly(invalid_msgs, missing_fields) ==
    IF missing_fields # <<>> THEN <<MissingPart(missing_fields)>>
    ELSE IF invalid_msgs # <<>> THEN <<JoinWith(<<"; ">>, invalid_msgs)>>
    ELSE <<>>

\* Lines 179-189
Parts(invalid_msgs, missing_fields) ==
    IF invalid_msgs # <<>>
    THEN IF HasFormatError(invalid_msgs)
         THEN <<JoinWith(<<"; ">>, invalid_msgs)>>
         ELSE (IF missing_fields # <<>> THEN <<MissingPart(missing_fields)>> ELSE <<>>)
              \o <<JoinWith(<<"; ">>, invalid_msgs)>>
    ELSE IF missing_fields # <<>> THEN <<MissingPart(missing_fields)>>
    ELSE <<>>

GenericMsg == <<"Datos incompletos o inválidos.">>

\* Line 191
Msg(parts) == IF parts # <<>> THEN JoinWith(<<" ">>, parts) ELSE GenericMsg

HTTP_422_UNPROCESSABLE_CONTENT == 422

\* Line 193: the JSONResponse of the handler for a request body and exc.errors().
HandlerResponse(body, errors) ==
    [status_code |-> HTTP_422_UNPROCESSABLE_CONTENT,
     msg |-> Msg(Parts(InvalidMsgs(errors, body, 1, <<>>), MissingFields(body))),
     detail |-> errors]

(***************************************************************************)
(* The application behind the middleware: the route reads the body,        *)
(* decodes and validates it, and a failure is answered by the handler.     *)
(***************************************************************************)
\* The app has read the body to its end: request.body() returns the
\* concatenation of the bodies of the messages it got.
BodyComplete ==
    /\ delivered # <<>>
    /\ delivered[Len(delivered)].type = "http.request"
    /\ ~delivered[Len(delivered)].more_body
    /\ \A i \in 1..(Len(delivered) - 1) :
          delivered[i].type = "http.request" /\ delivered[i].more_body

\* request.body() of the route and, cached, of the handler.
RequestBody == Concat([i \in DOMAIN delivered |-> delivered[i].body])

\* The route's body parameter is decoded and validated; a failure raises
\* RequestValidationError (tasks_router.py line 39 and 110, ai_router.py line 50).
RouteValidate ==
    /\ pc = "app"
    /\ scope.type = "http"
    /\ BodyComplete
    /\ exc_errors' = Validate(SchemaOf(scope), RequestBody)
    /\ pc' = IF exc_errors' = <<>> THEN "endpoint" ELSE "handler"
    /\ UNCHANGED <<scope, wire, recv_calls, wrapped, body_parts, body_received,
                   delivered, response>>
    /\ UNCHANGED <<aiVars, dbVars>>

\* json.dumps(content, allow_nan=False) of JSONResponse on the content of line
\* 193: it raises ValueError when a value in exc.errors() is NaN.
JsonDumpsOk(errors) ==
    \A i \in DOMAIN errors : Tok("l", <<"NaN">>) \notin SeqToSet(errors[i].input)

\* validation_exception_handler, lines 91-193: it returns its response, or
\* the exception of building it at line 193 leaves the handler.
ValidationExceptionHandler ==
    /\ pc = "handler"
    /\ IF JsonDumpsOk(exc_errors)
       THEN response' = HandlerResponse(RequestBody, exc_errors) /\ pc' = "done"
       ELSE response' = response /\ pc' = "raised"
    /\ UNCHANGED <<scope, wire, recv_calls, wrapped, body_parts, body_received,
                   delivered, exc_errors>>
    /\ UNCHANGED <<aiVars, dbVars>>

Quoted(w) == <<"\"", w, "\"">>

\* The fields the enumerated bodies are built from, and the value texts each
\* one takes: quoted, unquoted, null, a number, or nothing at all.
GenFields ==
    <<"title", "description", "priority", "effort_hours", "status", "assigned_to",
      "category">>

FormsOf(f) ==
    CASE f = "title" -> { Quoted("x"), <<"x">>, <<>> }
      [] f = "description" -> { Quoted("y"), <<"null">> }
      [] f = "priority" -> { Quoted("alta"), Quoted("urgente"), <<"alta">>, <<>> }
      [] f = "effort_hours" ->
            { <<"1">>, <<"0">>, <<"4", ".", "5">>, <<"e", "w">>, Quoted("abc"), <<"null">>,
              <<"[", "]">>, <<"-", ".", "5", "e", "+", "1">>, <<"1", ".">>, <<"1", "e">>,
              <<"NaN">> }
      [] f = "status" -> { Quoted("pendiente"), Quoted("finalizada"), <<"pendiente">> }
      [] f = "assigned_to" -> { Quoted("z"), <<"\"", "\"">> }
      [] OTHER -> { Quoted("Backend"), <<"\"", "\"">>, <<>> }

\* "<field>": <value>
Member(f, form) == Quoted(f) \o <<":", " ">> \o form

RECURSIVE MemberLists(_, _)
\* The lists of at most n members over the fields from index i on, in order.
MemberLists(i, n) ==
    IF i > Len(GenFields) THEN { <<>> }
    ELSE MemberLists(i + 1, n)
         \cup (IF n = 0 THEN {}
               ELSE { <<Member(GenFields[i], form)>> \o rest :
                        form \in FormsOf(GenFields[i]), rest \in MemberLists(i + 1, n - 1) })

\* { members joined by ", " }
Object(members) == <<"{">> \o JoinWith(<<",", " ">>, members) \o <<"}">>

\* The body of test_crear_tarea, with the given priority and effort_hours.
FullBody(priority, effort) ==
    Object(<< Member("title", Quoted("x")), Member("description", Quoted("y")),
              Member("priority", priority), Member("effort_hours", effort),
              Member("status", Quoted("pendiente")), Member("assigned_to", Quoted("z")) >>)

\* "<field>":<value>
Compact(f, form) == Quoted(f) \o <<":">> \o form

\* A body without whitespace that holds every field of the task model but id:
\* a valid priority, status and effort_hours, and a number for every other
\* field.
AllFieldsBody ==
    <<"{">>
    \o JoinWith(<<",">>,
                << Compact("title", <<"1">>), Compact("description", <<"1">>),
                   Compact("priority", Quoted("alta")), Compact("effort_hours", <<"1">>),
                   Compact("status", Quoted("pendiente")), Compact("assigned_to", <<"1">>),
                   Compact("category", <<"1">>), Compact("risk_analysis", <<"1">>),
                   Compact("risk_mitigation", <<"1">>) >>)
    \o <<"}">>

\* {"title": "x"}
TitleOnlyBody == Object(<<Member("title", Quoted("x"))>>)

\* Bodies of the tests of test_tasks_api.py, a body wrapped in the parameter
\* name, a body that is no object, and no body.
TestBodies ==
    { FullBody(Quoted("alta"), <<"2", ".", "5">>),
      FullBody(Quoted("alta"), <<"0">>),
      FullBody(Quoted("media"), Quoted("abc")),
      FullBody(Quoted("alta"), <<"e", "w">>),
      FullBody(Quoted("urgente"), <<"1", ".", "0">>),
      FullBody(<<"urgente">>, <<"1", ".", "0">>),
      FullBody(<<"alta">>, <<"4", ".", "5">>),
      AllFieldsBody,
      Object(<<Member(BodyParam, TitleOnlyBody)>>),
      Object(<<Member(BodyParam, <<"1">>)>>),
      <<"[", "1", "]">>,
      <<>> }

HandlerBodies == { Object(m) : m \in MemberLists(1, MaxKeys) } \cup TestBodies

\* PUT /tasks/1 with Content-Type: application/json
TasksPutScope ==
    [type |-> "http", path |-> <<"/", "tasks", "/", "1">>, method |-> "PUT",
     headers |-> <<JsonHeader>>]

RouteScopes == {AiScope, TasksScope, TasksPutScope}

\* Requests to the three routes that take a task body, each body sent whole.
InitHandler ==
    \E sc \in RouteScopes, b \in HandlerBodies :
        InitRequest(sc, <<HttpRequest(b, FALSE)>>)

NextHandler ==
    \/ MiddlewareCall
    \/ PassThroughReceive
    \/ ReceiveWrapper
    \/ RouteValidate
    \/ ValidationExceptionHandler

SpecHandler == InitHandler /\ [][NextHandler]_vars

(***************************************************************************)
(* Properties of the sanitizer.                                            *)
(***************************************************************************)
\* Index in the wire of the message that ends the body (more_body false), 0
\* if the client disconnects before it.
FinalIndex ==
    IF \E i \in DOMAIN wire : wire[i].type = "http.request" /\ ~wire[i].more_body
    THEN CHOOSE i \in DOMAIN wire :
            /\ wire[i].type = "http.request" /\ ~wire[i].more_body
            /\ \A j \in 1..(i - 1) : ~(wire[j].type = "http.request" /\ ~wire[j].more_body)
    ELSE 0

\* The transport has delivered the final chunk.
FullDrain == FinalIndex # 0 /\ recv_calls >= FinalIndex

\* The body the client sent: the concatenation of all transport chunks.
WireBody == Concat([i \in 1..FinalIndex |-> wire[i].body])

DeliveredBodies == Concat([i \in DOMAIN delivered |-> delivered[i].body])

\* The wrapper has handed the app the message it built from the whole body.
Drained == pc = "app" /\ wrapped /\ body_received

\* C1: on a guarded request no message that carries body bytes reaches the app
\* before the transport has delivered the final chunk.
C1_NoOutputBeforeDrain ==
    (pc = "app" /\ wrapped) =>
        \A i \in DOMAIN delivered :
            (delivered[i].type = "http.request" /\ delivered[i].body # <<>>) => FullDrain

\* C2: once a guarded request is drained, the body bytes the app got over the
\* whole request are exactly the sanitized concatenation of the transport
\* chunks, and they came in the one message that ends the body.
C2_OneSanitizedMessage ==
    Drained =>
        /\ DeliveredBodies = Encode(Sanitize(Decode(WireBody)))
        /\ delivered[FinalIndex] = HttpRequest(DeliveredBodies, FALSE)

\* C3: once the sanitized body was returned, every later read returned the
\* empty terminal message, the transport was not read again, the sanitized
\* body was handed over once, and none of the bytes that went into it had
\* reached the app before.
C3_NoDoubleConsumption ==
    Drained =>
        /\ recv_calls = FinalIndex
        /\ delivered[FinalIndex] = HttpRequest(Encode(Sanitize(Decode(WireBody))), FALSE)
        /\ \A i \in (FinalIndex + 1)..Len(delivered) : delivered[i] = EmptyTerminal
        /\ \A i \in 1..(FinalIndex - 1) : delivered[i].body = <<>>

\* The effective Content-Type of the scope: the value of the last such header.
ContentTypeOf(sc) ==
    LET at == {i \in DOMAIN sc.headers : sc.headers[i][1] = "content-type"}
    IN  IF at = {} THEN <<>>
        ELSE sc.headers[CHOOSE i \in at : \A j \in at : j <= i][2]

\* C4: the app is handed the wrapper exactly when the scope is http, the path
\* starts with /ai/, the method is POST, PUT or PATCH and the Content-Type
\* contains application/json; otherwise every message of the transport reaches
\* the app unchanged, in order, and nothing is buffered.
C4_GuardFrame ==
    pc = "app" =>
        /\ wrapped <=>
              /\ scope.type = "http"
              /\ Len(scope.path) >= 3
              /\ <<scope.path[1], scope.path[2], scope.path[3]>> = <<"/", "ai", "/">>
              /\ scope.method = "POST" \/ scope.method = "PUT" \/ scope.method = "PATCH"
              /\ \E i \in 1..Len(ContentTypeOf(scope)) :
                    /\ i + 2 <= Len(ContentTypeOf(scope))
                    /\ ContentTypeOf(scope)[i] = "application"
                    /\ ContentTypeOf(scope)[i + 1] = "/"
                    /\ ContentTypeOf(scope)[i + 2] = "json"
        /\ ~wrapped =>
              /\ delivered = SubSeq(wire, 1, Len(delivered))
              /\ recv_calls = Len(delivered)
              /\ body_parts = <<>>
              /\ ~body_received

\* C4 witness: a GET under /ai/ with a JSON content type whose body the rewrite
\* would change has reached the app as it was sent.
C4_Witness ==
    /\ pc = "app" /\ ~wrapped
    /\ scope.method = "GET" /\ StartsWith(scope.path, AiPrefix)
    /\ scope.headers = <<JsonHeader>>
    /\ delivered = <<HttpRequest(ExEmptyFirst, FALSE)>>

\* C5: the sanitized form of a body that is valid JSON decodes to the value
\* the body itself decodes to.
C5_ValidJsonPreserved ==
    (Drained /\ JsonLoads(WireBody).ok) =>
        JsonLoads(delivered[FinalIndex].body) = JsonLoads(WireBody)

\* The matches of  :\s*<closer>  in s, by their first index.
MatchStarts(s, closer) ==
    {i \in 1..Len(s) :
        /\ s[i] = ":"
        /\ \E j \in (i + 1)..Len(s) :
              s[j] = closer /\ \A k \in (i + 1)..(j - 1) : s[k] \in {" ", "\n"}}

\* The last index of the match that starts at i.
MatchLast(s, i, closer) ==
    CHOOSE j \in (i + 1)..Len(s) :
        s[j] = closer /\ \A k \in (i + 1)..(j - 1) : s[k] \in {" ", "\n"}

\* What position p of s contributes to the text with every match replaced: the
\* replacement where a match starts, nothing inside a match, itself elsewhere.
Piece(s, p, closer) ==
    IF p \in MatchStarts(s, closer) THEN <<":", " ", "null", closer>>
    ELSE IF \E i \in MatchStarts(s, closer) : i < p /\ p <= MatchLast(s, i, closer)
         THEN <<>>
         ELSE <<s[p]>>

\* s with every occurrence of colon, optional whitespace, closer replaced by
\* ": null" and the closer, and all other text unchanged.
Replaced(s, closer) == Concat([p \in 1..Len(s) |-> Piece(s, p, closer)])

\* {"a": null, "b": 1}
ExEmptyFirstOut ==
    <<"{", "\"", "a", "\"", ":", " ", "null", ",", " ", "\"", "b", "\"", ":", " ", "1", "}">>

\* {"a": 1, "b": null}
ExEmptyLastOut ==
    <<"{", "\"", "a", "\"", ":", " ", "1", ",", " ", "\"", "b", "\"", ":", " ", "null", "}">>

\* {"a": null, "b": null}
ExEmptyBothOut ==
    <<"{", "\"", "a", "\"", ":", " ", "null", ",", " ", "\"", "b", "\"", ":", " ", "null", "}">>

\* C6: the sanitized body is the decoded body with every colon + whitespace +
\* comma replaced by ": null," and then every colon + whitespace + closing
\* brace replaced by ": null}", all other text unchanged; the three example
\* bodies come out as stated.
C6_RewriteRules ==
    Drained =>
        /\ delivered[FinalIndex].body = Replaced(Replaced(Decode(WireBody), ","), "}")
        /\ WireBody = ExEmptyFirst => delivered[FinalIndex].body = ExEmptyFirstOut
        /\ WireBody = ExEmptyLast => delivered[FinalIndex].body = ExEmptyLastOut
        /\ WireBody = ExEmptyBoth => delivered[FinalIndex].body = ExEmptyBothOut

\* C6 witness: both rules fired on the body {"a": , "b": }.
C6_Witness ==
    /\ Drained
    /\ WireBody = ExEmptyBoth
    /\ delivered[FinalIndex].body = ExEmptyBothOut

(***************************************************************************)
(* Properties of the validation handler.  They are stated on the response  *)
(* (pc = "done") against the body the app read and the failure records.    *)
(***************************************************************************)
\* The msg holds a format clause: one with "formato inválido" in it, or the
\* clause "effort_hours debe ser numérico".
FormatClauseInMsg ==
    \/ Contains(response.msg, <<"formato inválido">>)
    \/ Contains(response.msg, <<"effort_hours", " debe ser numérico">>)

MissingClauseInMsg ==
    Contains(response.msg, <<"Faltan los siguientes campos requeridos: ">>)

\* C7: when the msg holds a format clause it holds no clause of missing
\* fields, whatever keys the body lacks.
C7_FormatPrecedence ==
    (pc = "done" /\ FormatClauseInMsg) => ~MissingClauseInMsg

\* C7 witness: a body with an unquoted priority and without the key category
\* was answered with the format clause of priority.
C7_Witness ==
    /\ pc = "done"
    /\ Contains(RequestBody, Member("priority", <<"alta">>))
    /\ ~Contains(RequestBody, <<"category">>)
    /\ Contains(response.msg, <<"priority", " tiene ", "formato inválido">>)

\* The fields of the task model but id, as task_model.py declares them.
DeclaredRequired ==
    <<"title", "description", "priority", "effort_hours", "status", "assigned_to",
      "category", "risk_analysis", "risk_mitigation">>

\* The keys of the field container of the body the app read.
ContainerHas(f) == HasKey(BodyData(RequestBody), f)

AbsentRequired == SelectSeq(DeclaredRequired, LAMBDA f : ~ContainerHas(f))

\* "Faltan los siguientes campos requeridos: " and the names, comma-joined.
MissingText(names) ==
    <<"Faltan los siguientes campos requeridos: ">>
    \o JoinWith(<<", ">>, [i \in DOMAIN names |-> <<names[i]>>])

\* The msg starts with the text and the text ends a part of it.
MsgListsMissing(names) ==
    /\ StartsWith(response.msg, MissingText(names))
    /\ Len(response.msg) > Len(MissingText(names)) =>
          response.msg[Len(MissingText(names)) + 1] = " "

\* C8: without a format clause the msg lists as missing exactly the required
\* fields, in declaration order, that are no key of the field container (none
\* when every one is a key); a key with a null or empty value is not listed;
\* the body {"title": "x"} gets every required field but title.
C8_MissingFieldsListed ==
    (pc = "done" /\ ~FormatClauseInMsg) =>
        /\ IF AbsentRequired = <<>> THEN ~MissingClauseInMsg
           ELSE MsgListsMissing(AbsentRequired)
        /\ \A f \in SeqToSet(DeclaredRequired) :
              (/\ ContainerHas(f)
               /\ ValueOf(BodyData(RequestBody), f)
                     \in {<<Tok("l", <<"null">>)>>, <<Tok("s", <<>>)>>})
              => ~Contains(response.msg, <<"Faltan los siguientes campos requeridos: ", f>>)
                 /\ ~Contains(response.msg, <<", ", f>>)
        /\ RequestBody = TitleOnlyBody =>
              MsgListsMissing(<<"description", "priority", "effort_hours", "status",
                                "assigned_to", "category", "risk_analysis",
                                "risk_mitigation">>)

\* C8 witness: the body {"description": null} was answered with a list of
\* missing fields that starts with title and goes on with priority.
C8_Witness ==
    /\ pc = "done"
    /\ RequestBody = Object(<<Member("description", <<"null">>)>>)
    /\ StartsWith(response.msg,
                  <<"Faltan los siguientes campos requeridos: ", "title", ", ", "priority">>)

\* The clause is in the msg and ends there or at the "; " before the next one.
ClauseInMsg(clause) ==
    \E i \in 1..Len(response.msg) :
        /\ i + Len(clause) - 1 <= Len(response.msg)
        /\ SubSeq(response.msg, i, i + Len(clause) - 1) = clause
        /\ i + Len(clause) <= Len(response.msg) => response.msg[i + Len(clause)] = "; "

\* C9: for every failure record with priority (status) in its path the msg
\* holds "priority debe ser uno de: " ("status debe ser uno de: ") followed by
\* exactly the values the task model declares for the field, comma-joined.
C9_EnumClause ==
    pc = "done" =>
        \A i \in DOMAIN response.detail :
            /\ "priority" \in SeqToSet(response.detail[i].loc) =>
                  ClauseInMsg(<<"priority", " debe ser uno de: ",
                                "baja", ", ", "media", ", ", "alta", ", ", "bloqueante">>)
            /\ "status" \in SeqToSet(response.detail[i].loc) =>
                  ClauseInMsg(<<"status", " debe ser uno de: ",
                                "pendiente", ", ", "en_progreso", ", ", "en_revision", ", ",
                                "completada">>)

\* C9 witness: a body with priority "urgente" and status "finalizada" was
\* answered, with a literal_error record for each.
C9_Witness ==
    /\ pc = "done"
    /\ Contains(RequestBody, Member("priority", Quoted("urgente")))
    /\ Contains(RequestBody, Member("status", Quoted("finalizada")))
    /\ \E i, j \in DOMAIN response.detail :
          /\ response.detail[i].type = <<"literal", "_", "error">>
          /\ response.detail[i].loc = <<"body", "priority">>
          /\ response.detail[j].type = <<"literal", "_", "error">>
          /\ response.detail[j].loc = <<"body", "status">>

\* C10: for every failure record with effort_hours in its path, a record of
\* type greater_than puts "effort_hours debe ser mayor a 0" in the msg and a
\* record of a type mismatch puts "effort_hours debe ser numérico" in it; the
\* body of test_crear_tarea with effort_hours 0 gets the first.
C10_EffortClauses ==
    pc = "done" =>
        /\ \A i \in DOMAIN response.detail :
              "effort_hours" \in SeqToSet(response.detail[i].loc) =>
                  /\ response.detail[i].type = <<"greater", "_", "than">> =>
                        Contains(response.msg, <<"effort_hours", " debe ser mayor a 0">>)
                  /\ response.detail[i].type \in {<<"float", "_", "parsing">>,
                                                  <<"float", "_", "type">>} =>
                        Contains(response.msg, <<"effort_hours", " debe ser numérico">>)
        /\ RequestBody = FullBody(Quoted("alta"), <<"0">>) =>
              Contains(response.msg, <<"effort_hours", " debe ser mayor a 0">>)

\* C10 witness: the body of test_crear_tarea with effort_hours 0 was answered
\* with a greater_than record and the clause for it.
C10_Witness ==
    /\ pc = "done"
    /\ RequestBody = FullBody(Quoted("alta"), <<"0">>)
    /\ \E i \in DOMAIN response.detail :
          /\ response.detail[i].loc = <<"body", "effort_hours">>
          /\ response.detail[i].type = <<"greater", "_", "than">>
    /\ Contains(response.msg, <<"effort_hours", " debe ser mayor a 0">>)

\* The handler answered a body that failed JSON decoding.
JsonInvalidAnswered ==
    /\ pc = "done"
    /\ \E i \in DOMAIN response.detail :
          response.detail[i].type = <<"json", "_", "invalid">>

NumericoInMsg == Contains(response.msg, <<"effort_hours", " debe ser numérico">>)

\* Symbols a value token is made of: no comma, closing brace, closing bracket
\* or whitespace.
InToken(c) == c \notin {",", "}", "]", " ", "\n"}

\* The indices at which a value token of the key "effort_hours" starts: the
\* key in quotes, whitespace, a colon, whitespace, then the token.
EffortTokenStarts(raw) ==
    {k \in DOMAIN raw :
        /\ InToken(raw[k])
        /\ \E i \in 1..(k - 4), c \in 4..(k - 1) :
              /\ i + 3 <= c
              /\ raw[i] = "\"" /\ raw[i + 1] = "effort_hours" /\ raw[i + 2] = "\""
              /\ raw[c] = ":"
              /\ \A j \in ((i + 3)..(c - 1)) \cup ((c + 1)..(k - 1)) : raw[j] \in {" ", "\n"}}

\* The first value token of effort_hours in the text (<<>> when there is none).
EffortToken(raw) ==
    IF EffortTokenStarts(raw) = {} THEN <<>>
    ELSE LET k == CHOOSE k \in EffortTokenStarts(raw) : \A j \in EffortTokenStarts(raw) : k <= j
             e == CHOOSE e \in k..Len(raw) :
                     /\ \A j \in k..e : InToken(raw[j])
                     /\ e < Len(raw) => ~InToken(raw[e + 1])
         IN  SubSeq(raw, k, e)

AllDigits(x) == \A i \in DOMAIN x : x[i] \in {"0", "1", "2", "3", "4", "5", "6", "7", "8", "9"}

\* digits with an optional decimal part, or a point and digits
MantissaLiteral(x) ==
    \E d \in 0..Len(x) :
        LET whole == SubSeq(x, 1, d)
            rest == SubSeq(x, d + 1, Len(x))
        IN  /\ AllDigits(whole)
            /\ \/ d >= 1 /\ rest = <<>>
               \/ d >= 1 /\ rest # <<>> /\ rest[1] = "." /\ AllDigits(Tail(rest))
               \/ d = 0 /\ Len(rest) >= 2 /\ rest[1] = "." /\ AllDigits(Tail(rest))

\* nothing, or e or E, an optional sign and digits
ExponentLiteral(x) ==
    \/ x = <<>>
    \/ /\ x[1] \in {"e", "E"}
       /\ LET r == Tail(x)
              digits == IF r # <<>> /\ r[1] \in {"+", "-"} THEN Tail(r) ELSE r
          IN  digits # <<>> /\ AllDigits(digits)

\* The numeric-literal pattern: optional minus, mantissa, optional exponent.
NumericLiteral(val) ==
    LET unsigned == IF val # <<>> /\ val[1] = "-" THEN Tail(val) ELSE val
    IN  \E e \in 0..Len(unsigned) :
            /\ MantissaLiteral(SubSeq(unsigned, 1, e))
            /\ ExponentLiteral(SubSeq(unsigned, e + 1, Len(unsigned)))

\* C11: for a body that fails JSON decoding the msg holds "effort_hours debe
\* ser numérico" exactly when the value token of effort_hours is unquoted and
\* is no numeric literal; the token ew gets the clause and the token 4.5 does
\* not, whatever the other members of the body are.
C11_EffortNumericToken ==
    JsonInvalidAnswered =>
        /\ NumericoInMsg <=>
              /\ EffortToken(Decode(RequestBody)) # <<>>
              /\ EffortToken(Decode(RequestBody))[1] # "\""
              /\ ~NumericLiteral(EffortToken(Decode(RequestBody)))
        /\ Contains(RequestBody, Member("effort_hours", <<"e", "w">>)) => NumericoInMsg
        /\ Contains(RequestBody, Member("effort_hours", <<"4", ".", "5">>)) => ~NumericoInMsg

\* C11 witness: the body of the test with priority unquoted and effort_hours
\* 4.5 failed decoding and was answered with the clause of priority only.
C11_Witness ==
    /\ JsonInvalidAnswered
    /\ RequestBody = FullBody(<<"alta">>, <<"4", ".", "5">>)
    /\ Contains(response.msg, <<"priority", " tiene ", "formato inválido">>)
    /\ ~NumericoInMsg

\* The handler was invoked and has ended, with a response or with an exception.
HandlerEnded == pc \in {"done", "raised"}

\* C12: every invocation of the handler ends with a response of status 422
\* that holds one msg string and, as detail, the failure records it was
\* invoked with, the same records in the same order.
C12_ResponseShape ==
    HandlerEnded =>
        /\ pc = "done"
        /\ response.status_code = 422
        /\ response.msg # <<>>
        /\ response.detail = exc_errors

\* C13: the handler never ends with an exception, and for a body that does
\* not decode and whose re-scan finds nothing it answers with the list of
\* missing fields.
C13_NeverRaises ==
    /\ pc # "raised"
    /\ (pc = "done" /\ ~JsonLoads(RequestBody).ok /\ ~FormatClauseInMsg) =>
          response.msg = MissingText(DeclaredRequired)

(***************************************************************************)
(* The AI endpoints (api/ai_router.py) and llm_service.  A JSON value is   *)
(* None, a string (its text) or a number; numbers are kept in tenths, so   *)
(* 4.5 is Num(45).  A prompt is kept as its template and the values that   *)
(* the f-string puts into it.                                              *)
(***************************************************************************)
None == [k |-> "none"]

Str(text) == [k |-> "str", v |-> text]

Num(tenths) == [k |-> "num", v |-> tenths]

\* A JSON true or false (an int to isinstance, worth 1 or 0).
Bool(b) == [k |-> "bool", v |-> b]

\* v or default, for a value in an f-string
OrElse(v, default) ==
    IF v = None \/ v = Str(<<>>) \/ v = Num(0) THEN Str(<<default>>) ELSE v

\* empty_string_to_none, task_model.py lines 122-128
EmptyStringToNone(v) == IF v = Str(<<>>) THEN None ELSE v

\* normalize_effort_hours, task_model.py lines 130-144
NormalizeEffortHours(v) ==
    IF v = Str(<<>>) \/ v = None THEN None
    ELSE IF v.k = "bool" THEN (IF v.v THEN Num(10) ELSE None)
    ELSE IF v.k = "num" /\ v.v <= 0 THEN None
    ELSE IF v.k = "num" /\ v.v > 0 THEN v
    ELSE None

\* The task_ai_input that validating the posted object yields.
TaskAiInputOf(json) ==
    [json EXCEPT !.effort_hours = NormalizeEffortHours(json.effort_hours),
                 !.category = EmptyStringToNone(json.category),
                 !.risk_analysis = EmptyStringToNone(json.risk_analysis),
                 !.risk_mitigation = EmptyStringToNone(json.risk_mitigation)]

\* task_category.__args__ as values
CategoryArgs == {Str(<<TaskCategory[i]>>) : i \in DOMAIN TaskCategory}

\* to_task handing every field on as it is.
ToTaskUnchecked(self) == self

\* task_ai_input.to_task, task_model.py lines 146-159
ToTask(self) ==
    [self EXCEPT !.effort_hours =
                     IF self.effort_hours.k = "num" /\ self.effort_hours.v > 0
                     THEN self.effort_hours ELSE None,
                 !.category = IF self.category \in CategoryArgs THEN self.category ELSE None]

\* str.strip()
RECURSIVE RStrip(_)
RStrip(text) ==
    IF text # <<>> /\ IsSpace(text[Len(text)])
    THEN RStrip(SubSeq(text, 1, Len(text) - 1)) ELSE text

Strip(text) == RStrip(LStrip(text))

\* The value _call_llm returns: the content of the completion, stripped
\* (llm_service.py line 177).
CallLlmResult(outcome) == Strip(outcome.text)

\* One call of _call_llm: the prompt it was given, whether it raised, and
\* the value it returned.
LlmCall(template, values, outcome) ==
    [template |-> template, values |-> values, raised |-> outcome.raised,
     result |-> IF outcome.raised THEN <<>> ELSE CallLlmResult(outcome)]

\* The values the user prompt of generate_description holds (lines 192-201).
DescriptionPrompt(t) ==
    [title |-> t.title, priority |-> t.priority, status |-> t.status,
     assigned_to |-> t.assigned_to, category |-> OrElse(t.category, "No especificada"),
     effort_hours |-> OrElse(t.effort_hours, "No especificadas")]

\* The values the user prompt of categorize_task holds (lines 226-235).
CategorizePrompt(t) ==
    [title |-> t.title, description |-> t.description, priority |-> t.priority,
     assigned_to |-> t.assigned_to, categories |-> TaskCategory]

\* The values the user prompt of estimate_effort holds (lines 273-281).
EstimatePrompt(t) ==
    [title |-> t.title, description |-> t.description,
     category |-> OrElse(t.category, "No especificada"), priority |-> t.priority,
     assigned_to |-> t.assigned_to]

\* The values the first user prompt of audit_task holds (lines 324-334).
RiskPrompt(t) ==
    [title |-> t.title, description |-> t.description, category |-> t.category,
     priority |-> t.priority, effort_hours |-> t.effort_hours, status |-> t.status,
     assigned_to |-> t.assigned_to]

\* A second prompt of audit_task that leaves the analysis out.
MitigationPromptBlind(t, risk_analysis) ==
    [title |-> t.title, description |-> t.description, category |-> t.category,
     priority |-> t.priority, effort_hours |-> t.effort_hours, status |-> t.status,
     assigned_to |-> t.assigned_to, risk_analysis |-> <<>>]

\* The values the second user prompt of audit_task holds (lines 342-356).
MitigationPrompt(t, risk_analysis) ==
    [title |-> t.title, description |-> t.description, category |-> t.category,
     priority |-> t.priority, effort_hours |-> t.effort_hours, status |-> t.status,
     assigned_to |-> t.assigned_to, risk_analysis |-> risk_analysis]

\* Lines 239-251 of categorize_task: the category the answer of the LLM stands for.  A category
\* name is one symbol; an answer names it in any case of letters.
LowerCategory(name) ==
    CASE name = "Frontend" -> "frontend" [] name = "Backend" -> "backend"
      [] name = "Testing" -> "testing" [] name = "Infra" -> "infra"
      [] name = "DevOps" -> "devops" [] name = "Database" -> "database"
      [] name = "Security" -> "security" [] name = "API" -> "api"
      [] name = "UI_UX" -> "ui_ux" [] name = "Documentation" -> "documentation"
      [] name = "Architecture" -> "architecture" [] name = "Mobile" -> "mobile"
      [] name = "Cloud" -> "cloud" [] name = "Analytics" -> "analytics"
      [] OTHER -> name

CategoryOfAnswer(category_response) ==
    LET category_clean == Strip(category_response)
        named == {i \in DOMAIN TaskCategory :
                     \E j \in DOMAIN category_clean :
                         LowerCategory(category_clean[j]) = LowerCategory(TaskCategory[i])}
    IN  IF Len(category_clean) = 1 /\ category_clean[1] \in SeqToSet(TaskCategory)
        THEN category_clean[1]
        ELSE IF named # {} THEN TaskCategory[CHOOSE i \in named : \A j \in named : i <= j]
        ELSE "Backend"

DigitChars == <<"0", "1", "2", "3", "4", "5", "6", "7", "8", "9">>

DigitVal(c) == (CHOOSE i \in DOMAIN DigitChars : DigitChars[i] = c) - 1

RECURSIVE IntVal(_)
\* The number a run of digits writes.
IntVal(run) ==
    IF run = <<>> THEN 0 ELSE IntVal(SubSeq(run, 1, Len(run) - 1)) * 10 + DigitVal(run[Len(run)])

\* The class [\d.] of line 288.
IsNumberChar(c) == c \in SeqToSet(DigitChars) \cup {"."}

\* re.findall(r'[\d.]+', text)[0]: the first run of digits and points
\* (<<>> when the text holds none).
FirstNumber(text) ==
    LET at == {i \in DOMAIN text : IsNumberChar(text[i])}
    IN  IF at = {} THEN <<>>
        ELSE LET a == CHOOSE i \in at : \A j \in at : i <= j
                 e == CHOOSE e \in a..Len(text) :
                         /\ \A j \in a..e : IsNumberChar(text[j])
                         /\ e < Len(text) => ~IsNumberChar(text[e + 1])
             IN  SubSeq(text, a, e)

\* float(run) does not raise ValueError: one point at most and a digit.
FloatOk(run) ==
    /\ Cardinality({i \in DOMAIN run : run[i] = "."}) <= 1
    /\ \E i \in DOMAIN run : run[i] # "."

\* float(run) in tenths, for a run with at most one digit after the point.
FloatTenths(run) ==
    LET points == {i \in DOMAIN run : run[i] = "."}
        p == IF points = {} THEN Len(run) + 1 ELSE CHOOSE i \in points : TRUE
    IN  IntVal(SubSeq(run, 1, p - 1)) * 10
        + (IF p < Len(run) THEN DigitVal(run[p + 1]) ELSE 0)

DefaultEffort == 40

MinEffort == 10

MaxEffort == 10000

\* Lines 286-300 of estimate_effort: the effort the answer of the LLM gives.
EffortOfAnswer(effort_response) ==
    LET number == FirstNumber(effort_response)
    IN  IF number = <<>> THEN Num(DefaultEffort)
        ELSE IF ~FloatOk(number) THEN Num(DefaultEffort)
        ELSE IF FloatTenths(number) <= 0 THEN Num(MinEffort)
        ELSE IF FloatTenths(number) > MaxEffort THEN Num(MaxEffort)
        ELSE Num(FloatTenths(number))

\* generate_description, lines 203-205: the answer becomes the description.
GenerateDescription(task_input, description) ==
    [task_input EXCEPT !.description = Str(description)]

\* categorize_task, lines 237-253.
CategorizeTask(task_input, category_response) ==
    [task_input EXCEPT !.category = Str(<<CategoryOfAnswer(category_response)>>)]

\* estimate_effort, lines 283-302, keeping the effort the task has when the
\* answer holds no number.
EstimateEffortKeeping(task_input, effort_response) ==
    IF FirstNumber(effort_response) = <<>> THEN task_input
    ELSE [task_input EXCEPT !.effort_hours = EffortOfAnswer(effort_response)]

\* estimate_effort, lines 283-302: every branch assigns effort_hours.
EstimateEffort(task_input, effort_response) ==
    [task_input EXCEPT !.effort_hours = EffortOfAnswer(effort_response)]

\* audit_task, line 337: the first answer is stored in risk_analysis.
AuditRiskAnalysis(task_input, risk_analysis) ==
    [task_input EXCEPT !.risk_analysis = Str(risk_analysis)]

\* audit_task, line 359: the second answer is stored in risk_mitigation.
AuditRiskMitigation(task_input, risk_mitigation) ==
    [task_input EXCEPT !.risk_mitigation = Str(risk_mitigation)]

HTTP_200_OK == 200

HTTP_500_INTERNAL_SERVER_ERROR == 500

\* The response of an endpoint that returned a task (response_model=task).
TaskResponse(t) == [status_code |-> HTTP_200_OK, body |-> t]

\* The except branch of an endpoint with every prefix the same.
InternalErrorUnnamed(prefix, e) ==
    [status_code |-> HTTP_500_INTERNAL_SERVER_ERROR, detail |-> <<"error", ": ">> \o e]

\* The except branch of the four endpoints:
\* HTTPException(500, detail=f"{prefix}: {str(e)}").
InternalError(prefix, e) ==
    [status_code |-> HTTP_500_INTERNAL_SERVER_ERROR, detail |-> <<prefix, ": ">> \o e]

\* What one call of the LLM can do: raise (text is str(e)) or answer text.
LlmTexts ==
    { <<"8", ".", "5">>, <<"Estimo", " ", "8", ".", "5", " ", "horas">>,
      <<"No", " ", "puedo">>, <<"0">>, <<"2", "0", "0", "0">>, <<".", ".">>,
      <<" ", "3", " ">>, <<"Frontend">>, <<"La", " ", "testing">>, <<>> }

LlmErrors == { <<"timeout">>, <<>> }

LlmOutcomes ==
    {[raised |-> FALSE, text |-> t] : t \in LlmTexts}
    \cup {[raised |-> TRUE, text |-> e] : e \in LlmErrors}

AiOps == {"describe", "categorize", "estimate", "audit"}

\* POST /ai/tasks/<op> with Content-Type: application/json
AiTaskScope(op) ==
    [type |-> "http", path |-> <<"/", "ai", "/", "tasks", "/", op>>,
     method |-> "POST", headers |-> <<JsonHeader>>]

\* Request bodies task_ai_input accepts.
AiRequests ==
    [id : {None}, title : {Str(<<"t">>)}, description : {Str(<<>>), Str(<<"y">>)},
     priority : {Str(<<"alta">>)},
     effort_hours : {None, Num(45), Num(0), Num(-10), Str(<<"abc">>), Str(<<>>), Bool(TRUE)},
     status : {Str(<<"pendiente">>)}, assigned_to : {Str(<<"ana">>)},
     category : {None, Str(<<"Backend">>), Str(<<"Otra">>), Str(<<>>)},
     risk_analysis : {None, Str(<<>>), Str(<<"r">>)},
     risk_mitigation : {None, Str(<<"m">>)}]

\* One endpoint about to run on a validated body.
InitAi ==
    /\ pc = "endpoint"
    /\ \E op \in AiOps : scope = AiTaskScope(op)
    /\ request_json \in AiRequests
    /\ strict_task = <<>>
    /\ llm_calls = <<>>
    /\ response = NoResponse
    /\ wire = <<>> /\ recv_calls = 0 /\ wrapped = FALSE /\ body_parts = <<>>
    /\ body_received = FALSE /\ delivered = <<>> /\ exc_errors = <<>>
    /\ db_tasks = <<>> /\ db_user_stories = {} /\ task_seq = 0 /\ story_seq = 0
    /\ call = NoCall
    /\ tasks_total_hours = <<>>
    /\ data_file = EmptyFile
    /\ procs = <<>>

\* ai_router.generar_descripcion
GenerarDescripcion ==
    /\ pc = "endpoint"
    /\ scope = AiTaskScope("describe")
    /\ \E outcome \in LlmOutcomes :
        LET t == ToTask(TaskAiInputOf(request_json))
        IN  /\ llm_calls' = Append(llm_calls, LlmCall("description", DescriptionPrompt(t), outcome))
            /\ IF outcome.raised
               THEN /\ strict_task' = t
                    /\ response' = InternalError("error_al_generar_descripcion", outcome.text)
               ELSE /\ strict_task' = GenerateDescription(t, CallLlmResult(outcome))
                    /\ response' = TaskResponse(strict_task')
    /\ pc' = "done"
    /\ UNCHANGED <<request_json, httpVars, dbVars>>

\* ai_router.categorizar_tarea
CategorizarTarea ==
    /\ pc = "endpoint"
    /\ scope = AiTaskScope("categorize")
    /\ \E outcome \in LlmOutcomes :
        LET t == ToTask(TaskAiInputOf(request_json))
        IN  /\ llm_calls' = Append(llm_calls, LlmCall("categorize", CategorizePrompt(t), outcome))
            /\ IF outcome.raised
               THEN /\ strict_task' = t
                    /\ response' = InternalError("error_al_categorizar_tarea", outcome.text)
               ELSE /\ strict_task' = CategorizeTask(t, CallLlmResult(outcome))
                    /\ response' = TaskResponse(strict_task')
    /\ pc' = "done"
    /\ UNCHANGED <<request_json, httpVars, dbVars>>

\* ai_router.estimar_esfuerzo
EstimarEsfuerzo ==
    /\ pc = "endpoint"
    /\ scope = AiTaskScope("estimate")
    /\ \E outcome \in LlmOutcomes :
        LET t == [ToTask(TaskAiInputOf(request_json)) EXCEPT !.effort_hours = None]
        IN  /\ llm_calls' = Append(llm_calls, LlmCall("estimate", EstimatePrompt(t), outcome))
            /\ IF outcome.raised
               THEN /\ strict_task' = t
                    /\ response' = InternalError("error_al_estimar_esfuerzo", outcome.text)
               ELSE /\ strict_task' = EstimateEffort(t, CallLlmResult(outcome))
                    /\ response' = TaskResponse(strict_task')
    /\ pc' = "done"
    /\ UNCHANGED <<request_json, httpVars, dbVars>>

\* ai_router.auditar_riesgos up to the return of the first call of the LLM
\* (audit_task, lines 317-337).
AuditarRiesgosAnalysis ==
    /\ pc = "endpoint"
    /\ scope = AiTaskScope("audit")
    /\ \E outcome \in LlmOutcomes :
        LET t == ToTask(TaskAiInputOf(request_json))
        IN  /\ llm_calls' = Append(llm_calls, LlmCall("risk_analysis", RiskPrompt(t), outcome))
            /\ IF outcome.raised
               THEN /\ strict_task' = t
                    /\ response' = InternalError("error_al_auditar_riesgos", outcome.text)
                    /\ pc' = "done"
               ELSE /\ strict_task' = AuditRiskAnalysis(t, CallLlmResult(outcome))
                    /\ response' = response
                    /\ pc' = "mitigation"
    /\ UNCHANGED <<request_json, httpVars, dbVars>>

\* ai_router.auditar_riesgos from the second call of the LLM on
\* (audit_task, lines 339-361).
AuditarRiesgosMitigation ==
    /\ pc = "mitigation"
    /\ \E outcome \in LlmOutcomes :
        /\ llm_calls' = Append(llm_calls,
               LlmCall("risk_mitigation",
                       MitigationPrompt(strict_task, llm_calls[Len(llm_calls)].result), outcome))
        /\ IF outcome.raised
           THEN /\ strict_task' = strict_task
                /\ response' = InternalError("error_al_auditar_riesgos", outcome.text)
           ELSE /\ strict_task' = AuditRiskMitigation(strict_task, CallLlmResult(outcome))
                /\ response' = TaskResponse(strict_task')
    /\ pc' = "done"
    /\ UNCHANGED <<request_json, httpVars, dbVars>>

NextAi ==
    \/ GenerarDescripcion
    \/ CategorizarTarea
    \/ EstimarEsfuerzo
    \/ AuditarRiesgosAnalysis
    \/ AuditarRiesgosMitigation

SpecAi == InitAi /\ [][NextAi]_vars

\* The endpoint a request of the AI router is for.
AiOp == scope.path[6]

\* C14: when a call of the LLM raises, the endpoint answers 500 with a detail
\* that starts with the prefix of the endpoint; the call that raised is the
\* last call made (no retry, and in audit no second call after a failed
\* first one).
C14_LlmFailureIs500 ==
    \A i \in DOMAIN llm_calls :
        llm_calls[i].raised =>
            /\ i = Len(llm_calls)
            /\ pc = "done"
            /\ response.status_code = 500
            /\ StartsWith(response.detail,
                   CASE AiOp = "describe" -> <<"error_al_generar_descripcion">>
                     [] AiOp = "categorize" -> <<"error_al_categorizar_tarea">>
                     [] AiOp = "estimate" -> <<"error_al_estimar_esfuerzo">>
                     [] AiOp = "audit" -> <<"error_al_auditar_riesgos">>)
            /\ \A j \in 1..(i - 1) : llm_calls[j].template # llm_calls[i].template
            /\ AiOp # "audit" => Len(llm_calls) = 1
            /\ (AiOp = "audit" /\ llm_calls[i].template = "risk_analysis") => Len(llm_calls) = 1

\* The first call of an audit raised and the request ended there.
C14_Witness ==
    /\ pc = "done"
    /\ AiOp = "audit"
    /\ Len(llm_calls) = 1
    /\ llm_calls[1].raised
    /\ response.status_code = 500
    /\ response.detail = <<"error_al_auditar_riesgos", ": ", "timeout">>

-----------------------------------------------------------------------------
\* The store: the tasks and user_stories tables behind task_service and
\* user_story_service, and the /tasks endpoints over them.

MaxTasks == 2

MaxStories == 2

\* A foreign key holding an id (None is NULL).
Ref(id) == [k |-> "int", v |-> id]

\* The ids a request can name: those the tables can give out and one more.
TaskIds == 1..(MaxTasks + 1)

StoryIds == 1..(MaxStories + 1)

Titles == {<<"a">>, <<"b">>}

\* Bodies of PUT /tasks/{task_id} that pass task_update: `set` holds the
\* fields the body names (model_dump(exclude_unset=True) keeps only those).
TaskUpdates ==
    {[set |-> {}, title |-> <<"a">>, user_story_id |-> None]}
    \cup {[set |-> {"title"}, title |-> t, user_story_id |-> None] : t \in Titles}
    \cup {[set |-> {"user_story_id"}, title |-> <<"a">>, user_story_id |-> u] :
             u \in {None} \cup {Ref(i) : i \in StoryIds}}
    \cup {[set |-> {"title", "user_story_id"}, title |-> t, user_story_id |-> u] :
             t \in Titles, u \in {Ref(i) : i \in StoryIds}}

\* The foreign key tasks.user_story_id -> user_stories.id holds for a value.
ForeignKeyOk(user_story_id, stories) ==
    user_story_id = None \/ user_story_id.v \in stories

\* A DELETE that forgets its WHERE clause.
WithoutAny(table, ids) == [i \in {} |-> table[i]]

\* The table without the rows of a set of ids.
Without(table, ids) == [i \in DOMAIN table \ ids |-> table[i]]

\* task_service.get_task: the row, or None.
GetTask(table, task_id) == IF task_id \in DOMAIN table THEN table[task_id] ELSE None

\* task_service.update_task, lines 159-165: the row with the named fields set.
UpdatedRow(row, task_data) ==
    [row EXCEPT !.title = IF "title" \in task_data.set THEN task_data.title ELSE @,
                !.user_story_id = IF "user_story_id" \in task_data.set
                                  THEN task_data.user_story_id ELSE @]

\* db.delete(db_user_story) without the cascade of user_story.tasks.
TasksOfStoryNone(table, user_story_id) == {}

\* The rows user_story.tasks holds (cascade="all, delete-orphan" deletes
\* them with the story).
TasksOfStory(table, user_story_id) ==
    {i \in DOMAIN table : table[i].user_story_id = Ref(user_story_id)}

HTTP_201_CREATED == 201

HTTP_204_NO_CONTENT == 204

HTTP_400_BAD_REQUEST == 400

HTTP_404_NOT_FOUND == 404

\* raise HTTPException(status_code, detail)
HttpException(status_code, detail) == [status_code |-> status_code, detail |-> detail]

\* str(e) of an HTTPException: "<status_code>: <detail>".
StrOfHttpException(code_text, detail) == <<code_text, ": ">> \o detail

InitDb ==
    /\ pc = "store"
    /\ db_tasks = <<>>
    /\ db_user_stories = {}
    /\ task_seq = 0
    /\ story_seq = 0
    /\ call = NoCall
    /\ tasks_total_hours = <<>>
    /\ data_file = EmptyFile
    /\ procs = <<>>
    /\ response = NoResponse
    /\ scope = TasksScope
    /\ wire = <<>> /\ recv_calls = 0 /\ wrapped = FALSE /\ body_parts = <<>>
    /\ body_received = FALSE /\ delivered = <<>> /\ exc_errors = <<>>
    /\ request_json = <<>> /\ strict_task = <<>> /\ llm_calls = <<>>

\* tasks_router.crear_tarea over task_service.create_task.  An INSERT the
\* foreign key rejects raises, and may have used up an id.
CrearTarea ==
    /\ pc = "store"
    /\ task_seq < MaxTasks
    /\ \E title \in Titles, user_story_id \in {None} \cup {Ref(i) : i \in StoryIds} :
        /\ call' = [op |-> "crear_tarea", id |-> task_seq + 1]
        /\ IF ForeignKeyOk(user_story_id, db_user_stories)
           THEN LET row == [id |-> task_seq + 1, title |-> title,
                            user_story_id |-> user_story_id]
                IN  /\ db_tasks' = (task_seq + 1 :> row) @@ db_tasks
                    /\ task_seq' = task_seq + 1
                    /\ response' = [status_code |-> HTTP_201_CREATED, body |-> row]
           ELSE /\ db_tasks' = db_tasks
                /\ task_seq' \in {task_seq, task_seq + 1}
                /\ response' = HttpException(HTTP_400_BAD_REQUEST,
                                   <<"Error al crear tarea", ": ", "IntegrityError">>)
    /\ UNCHANGED <<db_user_stories, story_seq, pc, httpVars, aiVars, fileVars, tasks_total_hours>>

\* tasks_router.leer_tarea
LeerTarea ==
    /\ pc = "store"
    /\ \E task_id \in TaskIds :
        /\ call' = [op |-> "leer_tarea", id |-> task_id]
        /\ response' = IF GetTask(db_tasks, task_id) = None
                       THEN HttpException(HTTP_404_NOT_FOUND, <<"tarea_no_encontrada">>)
                       ELSE [status_code |-> HTTP_200_OK, body |-> GetTask(db_tasks, task_id)]
    /\ UNCHANGED <<db_tasks, db_user_stories, task_seq, story_seq, pc, httpVars, aiVars, fileVars, tasks_total_hours>>

\* tasks_router.actualizar_tarea over task_service.update_task.  The
\* HTTPException(404) is raised inside the try whose except Exception
\* answers 400 with str(e).
ActualizarTarea ==
    /\ pc = "store"
    /\ \E task_id \in TaskIds, task_data \in TaskUpdates :
        /\ call' = [op |-> "actualizar_tarea", id |-> task_id]
        /\ IF GetTask(db_tasks, task_id) = None
           THEN /\ db_tasks' = db_tasks
                /\ response' = HttpException(HTTP_400_BAD_REQUEST,
                       <<"Error al actualizar tarea", ": ">>
                       \o StrOfHttpException("404", <<"tarea_no_encontrada">>))
           ELSE LET row == UpdatedRow(db_tasks[task_id], task_data)
                IN  IF ForeignKeyOk(row.user_story_id, db_user_stories)
                    THEN /\ db_tasks' = [db_tasks EXCEPT ![task_id] = row]
                         /\ response' = [status_code |-> HTTP_200_OK, body |-> row]
                    ELSE /\ db_tasks' = db_tasks
                         /\ response' = HttpException(HTTP_400_BAD_REQUEST,
                                <<"Error al actualizar tarea", ": ", "IntegrityError">>)
    /\ UNCHANGED <<db_user_stories, task_seq, story_seq, pc, httpVars, aiVars, fileVars, tasks_total_hours>>

\* tasks_router.eliminar_tarea over task_service.delete_task
EliminarTarea ==
    /\ pc = "store"
    /\ \E task_id \in TaskIds :
        /\ call' = [op |-> "eliminar_tarea", id |-> task_id]
        /\ IF GetTask(db_tasks, task_id) = None
           THEN /\ db_tasks' = db_tasks
                /\ response' = HttpException(HTTP_404_NOT_FOUND, <<"tarea_no_encontrada">>)
           ELSE /\ db_tasks' = Without(db_tasks, {task_id})
                /\ response' = [status_code |-> HTTP_204_NO_CONTENT, body |-> None]
    /\ UNCHANGED <<db_user_stories, task_seq, story_seq, pc, httpVars, aiVars, fileVars, tasks_total_hours>>

\* user_story_service.create_user_story
CreateUserStory ==
    /\ pc = "store"
    /\ story_seq < MaxStories
    /\ call' = [op |-> "create_user_story", id |-> story_seq + 1]
    /\ db_user_stories' = db_user_stories \cup {story_seq + 1}
    /\ story_seq' = story_seq + 1
    /\ tasks_total_hours' = (story_seq + 1 :> 0) @@ tasks_total_hours
    /\ response' = [result |-> TRUE]
    /\ UNCHANGED <<db_tasks, task_seq, pc, httpVars, aiVars, fileVars>>

\* user_story_service.delete_user_story
DeleteUserStory ==
    /\ pc = "store"
    /\ \E user_story_id \in StoryIds :
        /\ call' = [op |-> "delete_user_story", id |-> user_story_id]
        /\ IF user_story_id \notin db_user_stories
           THEN /\ UNCHANGED <<db_tasks, db_user_stories, tasks_total_hours>>
                /\ response' = [result |-> FALSE]
           ELSE /\ db_user_stories' = db_user_stories \ {user_story_id}
                /\ tasks_total_hours' = Without(tasks_total_hours, {user_story_id})
                /\ db_tasks' = Without(db_tasks, TasksOfStory(db_tasks, user_story_id))
                /\ response' = [result |-> TRUE]
    /\ UNCHANGED <<task_seq, story_seq, pc, httpVars, aiVars, fileVars>>

NextDb ==
    \/ CrearTarea
    \/ LeerTarea
    \/ ActualizarTarea
    \/ EliminarTarea
    \/ CreateUserStory
    \/ DeleteUserStory

SpecDb == InitDb /\ [][NextDb]_vars

\* C15: PUT /tasks/{task_id} with a valid body for a task_id that does not
\* exist answers 404 with detail "tarea_no_encontrada" (and leaves the
\* store unchanged).
C15_UpdateMissingIs404 ==
    [][\A task_id \in TaskIds :
          (/\ call' = [op |-> "actualizar_tarea", id |-> task_id]
           /\ task_id \notin DOMAIN db_tasks)
          => /\ response'.status_code = 404
             /\ response'.detail = <<"tarea_no_encontrada">>
             /\ db_tasks' = db_tasks]_vars

\* The part of C15 the code keeps: such a PUT changes no row.
C15_UpdateMissingKeepsStore ==
    [][\A task_id \in TaskIds :
          (/\ call' = [op |-> "actualizar_tarea", id |-> task_id]
           /\ task_id \notin DOMAIN db_tasks)
          => db_tasks' = db_tasks /\ db_user_stories' = db_user_stories]_vars

\* The rows other than one id are the same before and after the step.
OthersUnchanged(task_id) ==
    \A j \in DOMAIN db_tasks \ {task_id} : j \in DOMAIN db_tasks' /\ db_tasks'[j] = db_tasks[j]

\* C16: a delete of a stored task answers 204, removes that row and leaves
\* every other row as it was; a delete of an id that is not stored (deleted
\* before, or never created) answers 404 and changes nothing; a get of such
\* an id answers 404; and an id that is not stored stays so through every
\* read, update and delete.
C16_DeleteThenAbsent ==
    [][\A task_id \in TaskIds :
          /\ (call' = [op |-> "eliminar_tarea", id |-> task_id] /\ task_id \in DOMAIN db_tasks)
                => /\ response'.status_code = 204
                   /\ task_id \notin DOMAIN db_tasks'
                   /\ OthersUnchanged(task_id)
                   /\ DOMAIN db_tasks' \subseteq DOMAIN db_tasks
          /\ (call' = [op |-> "eliminar_tarea", id |-> task_id] /\ task_id \notin DOMAIN db_tasks)
                => /\ response'.status_code = 404
                   /\ response'.detail = <<"tarea_no_encontrada">>
                   /\ db_tasks' = db_tasks
          /\ (call' = [op |-> "leer_tarea", id |-> task_id] /\ task_id \notin DOMAIN db_tasks)
                => /\ response'.status_code = 404
                   /\ response'.detail = <<"tarea_no_encontrada">>
                   /\ db_tasks' = db_tasks
          /\ (task_id \notin DOMAIN db_tasks /\ call'.op # "crear_tarea")
                => task_id \notin DOMAIN db_tasks'
          /\ (task_id \notin DOMAIN db_tasks /\ task_id <= task_seq)
                => task_id \notin DOMAIN db_tasks']_vars

\* A task was deleted while another one is stored.
C16_Witness ==
    /\ call.op = "eliminar_tarea"
    /\ response.status_code = 204
    /\ call.id \notin DOMAIN db_tasks
    /\ DOMAIN db_tasks # {}

\* C17: a delete_user_story that succeeds removes the story and every task
\* whose user_story_id is its id; every other task (of another story, or of
\* none) is stored as before.
C17_StoryDeleteCascades ==
    [][\A story_id \in StoryIds :
          (call' = [op |-> "delete_user_story", id |-> story_id] /\ story_id \in db_user_stories)
          => /\ response' = [result |-> TRUE]
             /\ story_id \notin db_user_stories'
             /\ DOMAIN db_tasks' \subseteq DOMAIN db_tasks
             /\ \A j \in DOMAIN db_tasks :
                   IF db_tasks[j].user_story_id = [k |-> "int", v |-> story_id]
                   THEN j \notin DOMAIN db_tasks'
                   ELSE j \in DOMAIN db_tasks' /\ db_tasks'[j] = db_tasks[j]]_vars

\* A story was deleted with its task while a task of no story is stored.
C17_Witness ==
    /\ call.op = "delete_user_story"
    /\ response = [result |-> TRUE]
    /\ task_seq = 2
    /\ call.id \notin db_user_stories
    /\ DOMAIN db_tasks = {2}
    /\ db_tasks[2].user_story_id = [k |-> "none"]

\* An audit that answered 200.
AuditSucceeded == pc = "done" /\ AiOp = "audit" /\ response.status_code = 200

\* C18: a successful audit made exactly two calls of the LLM, the risk
\* analysis and then the mitigation plan; the second call is made only once
\* the first has returned; the prompt of the second holds what the first
\* returned; the first result is in risk_analysis, the second in
\* risk_mitigation.
C18_AuditTwoCallsInOrder ==
    /\ AuditSucceeded =>
          /\ Len(llm_calls) = 2
          /\ llm_calls[1].template = "risk_analysis"
          /\ llm_calls[2].template = "risk_mitigation"
          /\ ~llm_calls[1].raised /\ ~llm_calls[2].raised
          /\ llm_calls[2].values.risk_analysis = llm_calls[1].result
          /\ response.body.risk_analysis = [k |-> "str", v |-> llm_calls[1].result]
          /\ response.body.risk_mitigation = [k |-> "str", v |-> llm_calls[2].result]
    /\ (AiOp = "audit" /\ Len(llm_calls) >= 1) => llm_calls[1].template = "risk_analysis"
    /\ (AiOp = "audit" /\ Len(llm_calls) >= 2) =>
          /\ Len(llm_calls) = 2
          /\ ~llm_calls[1].raised
          /\ llm_calls[2].template = "risk_mitigation"
    /\ pc = "mitigation" => Len(llm_calls) = 1 /\ ~llm_calls[1].raised

\* An audit ended well on two different answers of the LLM.
C18_Witness ==
    /\ AuditSucceeded
    /\ llm_calls[1].result = <<"No", " ", "puedo">>
    /\ llm_calls[2].values.risk_analysis = <<"No", " ", "puedo">>
    /\ llm_calls[2].result = <<"3">>
    /\ response.body.risk_analysis = [k |-> "str", v |-> <<"No", " ", "puedo">>]
    /\ response.body.risk_mitigation = [k |-> "str", v |-> <<"3">>]

\* An audit or a describe that answered 200.
AuditOrDescribeSucceeded ==
    pc = "done" /\ AiOp \in {"audit", "describe"} /\ response.status_code = 200

\* The effort_hours the endpoints hand on: a number above 0 as sent (true is
\* 1.0), anything else null.
HandedOnEffort(v) ==
    IF v.k = "num" /\ v.v > 0 THEN v
    ELSE IF v = [k |-> "bool", v |-> TRUE] THEN [k |-> "num", v |-> 10]
    ELSE [k |-> "none"]

\* The category the endpoints hand on: a name of task_category as sent,
\* anything else null.
HandedOnCategory(v) ==
    IF v \in {[k |-> "str", v |-> <<c>>] :
                 c \in {"Frontend", "Backend", "Testing", "Infra", "DevOps", "Database",
                        "Security", "API", "UI_UX", "Documentation", "Architecture",
                        "Mobile", "Cloud", "Analytics"}}
    THEN v ELSE [k |-> "none"]

\* An optional text the endpoints hand on: the empty string becomes null.
HandedOnText(v) == IF v = [k |-> "str", v |-> <<>>] THEN [k |-> "none"] ELSE v

\* C19 as stated: the task an audit returns equals the request in title,
\* description, priority, status, assigned_to, category and effort_hours,
\* and the task a describe returns equals it in every field but description.
C19_RequestPreserved ==
    AuditOrDescribeSucceeded =>
        /\ response.body.title = request_json.title
        /\ response.body.priority = request_json.priority
        /\ response.body.status = request_json.status
        /\ response.body.assigned_to = request_json.assigned_to
        /\ response.body.category = request_json.category
        /\ response.body.effort_hours = request_json.effort_hours
        /\ AiOp = "audit" => response.body.description = request_json.description
        /\ AiOp = "describe" =>
              /\ response.body.risk_analysis = request_json.risk_analysis
              /\ response.body.risk_mitigation = request_json.risk_mitigation

\* C19: the task an audit returns equals the request in title, description,
\* priority, status and assigned_to; its effort_hours is the request's when
\* that is a number above 0 and null otherwise, its category the request's
\* when that is a task_category name and null otherwise.  A describe returns
\* the same but for description, with risk_analysis and risk_mitigation as
\* sent (an empty string as null).
C19_RequestPreservedNormalized ==
    AuditOrDescribeSucceeded =>
        /\ response.body.id = request_json.id
        /\ response.body.title = request_json.title
        /\ response.body.priority = request_json.priority
        /\ response.body.status = request_json.status
        /\ response.body.assigned_to = request_json.assigned_to
        /\ response.body.category = HandedOnCategory(request_json.category)
        /\ response.body.effort_hours = HandedOnEffort(request_json.effort_hours)
        /\ AiOp = "audit" => response.body.description = request_json.description
        /\ AiOp = "describe" =>
              /\ response.body.description = [k |-> "str", v |-> llm_calls[1].result]
              /\ response.body.risk_analysis = HandedOnText(request_json.risk_analysis)
              /\ response.body.risk_mitigation = HandedOnText(request_json.risk_mitigation)

\* An audit answered a request whose effort_hours and category it could not
\* hand on.
C19_Witness ==
    /\ AuditOrDescribeSucceeded
    /\ AiOp = "audit"
    /\ request_json.effort_hours = [k |-> "num", v |-> -10]
    /\ request_json.category = [k |-> "str", v |-> <<"Otra">>]
    /\ response.body.effort_hours = [k |-> "none"]
    /\ response.body.category = [k |-> "none"]
    /\ response.body.description = request_json.description

\* An estimate that answered 200.
EstimateSucceeded == pc = "done" /\ AiOp = "estimate" /\ response.status_code = 200

\* C20: the task an estimate returns does not depend on the effort_hours of
\* the request: the prompt does not hold it, the effort_hours returned is the
\* one read from the answer of the LLM (4.0 when it holds no number, kept
\* within 1.0 and 1000.0), and every other field is the request's.
C20_EstimateIgnoresEffort ==
    EstimateSucceeded =>
        /\ Len(llm_calls) = 1
        /\ "effort_hours" \notin DOMAIN llm_calls[1].values
        /\ response.body.effort_hours = EffortOfAnswer(llm_calls[1].result)
        /\ response.body.effort_hours.k = "num"
        /\ response.body.effort_hours.v >= 10 /\ response.body.effort_hours.v <= 10000
        /\ llm_calls[1].result = <<"8", ".", "5">> => response.body.effort_hours.v = 85
        /\ llm_calls[1].result = <<"Estimo", " ", "8", ".", "5", " ", "horas">>
              => response.body.effort_hours.v = 85
        /\ llm_calls[1].result = <<"No", " ", "puedo">> => response.body.effort_hours.v = 40
        /\ llm_calls[1].result = <<".", ".">> => response.body.effort_hours.v = 40
        /\ llm_calls[1].result = <<"0">> => response.body.effort_hours.v = 10
        /\ llm_calls[1].result = <<"2", "0", "0", "0">> => response.body.effort_hours.v = 10000
        /\ response.body.id = request_json.id
        /\ response.body.title = request_json.title
        /\ response.body.description = request_json.description
        /\ response.body.priority = request_json.priority
        /\ response.body.status = request_json.status
        /\ response.body.assigned_to = request_json.assigned_to
        /\ response.body.category = HandedOnCategory(request_json.category)
        /\ response.body.risk_analysis = HandedOnText(request_json.risk_analysis)
        /\ response.body.risk_mitigation = HandedOnText(request_json.risk_mitigation)

\* An estimate answered 4.0 to a request that came with 4.5 hours, the LLM
\* having named no number.
C20_Witness ==
    /\ EstimateSucceeded
    /\ request_json.effort_hours = [k |-> "num", v |-> 45]
    /\ llm_calls[1].result = <<"No", " ", "puedo">>
    /\ response.body.effort_hours = [k |-> "num", v |-> 40]

-----------------------------------------------------------------------------
\* task_manager: the tasks kept in data/tasks_json.json.  Every method
\* reads and writes the whole file; each open-read and each open-write is one
\* step, and a caller's locals live in procs.

MaxLastId == 3

Callers == {"a", "b"}

\* A caller that is in no call.
Idle ==
    [pc |-> "idle", op |-> "", task_id |-> 0, title |-> <<>>, tasks |-> <<>>,
     data |-> EmptyFile, new_id |-> 0, result |-> "none"]

\* _get_next_id handing out last_id again.
NextIdSame(last_id) == IF last_id < 0 THEN 0 ELSE last_id

\* _get_next_id, lines 112-119: next_id from the last_id read.
NextId(last_id) == (IF last_id < 0 THEN 0 ELSE last_id) + 1

\* The ids of a list of tasks, in order.
IdsOf(tasks) == [i \in DOMAIN tasks |-> tasks[i].id]

\* A call of create_task, update_task or delete_task begins.
CallTaskManager(c) ==
    /\ procs[c].pc \in {"idle", "returned"}
    /\ \E op \in {"create_task", "update_task", "delete_task"},
          task_id \in 1..(MaxLastId + 1), title \in Titles :
        /\ op = "create_task" => data_file.last_id < MaxLastId /\ task_id = 1
        /\ op = "delete_task" => title = <<"a">>
        /\ procs' = [procs EXCEPT ![c] =
               [Idle EXCEPT !.pc = "load", !.op = op, !.title = title,
                            !.task_id = IF op = "create_task" THEN 0 ELSE task_id]]
    /\ UNCHANGED data_file

\* load_tasks at the head of the three methods, and what each does with the
\* list before it touches the file again (lines 137, 172-179, 188-191).
LoadTasks(c) ==
    /\ procs[c].pc = "load"
    /\ LET tasks == data_file.Tasks
           me == procs[c]
           found == {i \in DOMAIN tasks : tasks[i].id = me.task_id}
           first == CHOOSE i \in found : \A j \in found : i <= j
           filtered == SelectSeq(tasks, LAMBDA t : t.id # me.task_id)
       IN  procs' = [procs EXCEPT ![c] =
               CASE me.op = "create_task" ->
                        [me EXCEPT !.tasks = tasks, !.pc = "next_id_read"]
                 [] me.op = "update_task" /\ found = {} ->
                        [me EXCEPT !.pc = "returned", !.result = "None"]
                 [] me.op = "update_task" /\ found # {} ->
                        [me EXCEPT !.tasks = [tasks EXCEPT ![first] =
                                                 [id |-> me.task_id, title |-> me.title]],
                                   !.pc = "save_read", !.result = "task"]
                 [] me.op = "delete_task" /\ Len(filtered) = Len(tasks) ->
                        [me EXCEPT !.pc = "returned", !.result = "False"]
                 [] OTHER ->
                        [me EXCEPT !.tasks = filtered, !.pc = "save_read", !.result = "True"]]
    /\ UNCHANGED data_file

\* _get_next_id, lines 104-110: the file is read.
GetNextIdRead(c) ==
    /\ procs[c].pc = "next_id_read"
    /\ procs' = [procs EXCEPT ![c].data = data_file, ![c].pc = "next_id_write"]
    /\ UNCHANGED data_file

\* _get_next_id, lines 119-126, and create_task, lines 139-140: the data
\* read is written back with last_id = next_id; the new task gets the id.
GetNextIdWrite(c) ==
    /\ procs[c].pc = "next_id_write"
    /\ LET next_id == NextId(procs[c].data.last_id)
       IN  /\ data_file' = [procs[c].data EXCEPT !.last_id = next_id]
           /\ procs' = [procs EXCEPT
                  ![c].new_id = next_id,
                  ![c].tasks = Append(@, [id |-> next_id, title |-> procs[c].title]),
                  ![c].result = "task",
                  ![c].pc = "save_read"]

\* save_tasks, lines 83-89: the file is read.
SaveTasksRead(c) ==
    /\ procs[c].pc = "save_read"
    /\ procs' = [procs EXCEPT ![c].data = data_file, ![c].pc = "save_write"]
    /\ UNCHANGED data_file

\* save_tasks, lines 93-95: the data read is written back with the caller's
\* list as Tasks; the method returns and its locals are gone.
SaveTasksWrite(c) ==
    /\ procs[c].pc = "save_write"
    /\ data_file' = [procs[c].data EXCEPT !.Tasks = procs[c].tasks]
    /\ procs' = [procs EXCEPT ![c].pc = "returned", ![c].tasks = <<>>,
                              ![c].data = EmptyFile]

\* One step of a caller, every other variable left alone.
TaskManagerStep(c) ==
    /\ \/ LoadTasks(c)
       \/ GetNextIdRead(c)
       \/ GetNextIdWrite(c)
       \/ SaveTasksRead(c)
       \/ SaveTasksWrite(c)
    /\ UNCHANGED <<pc, response, httpVars, aiVars, db_tasks, db_user_stories, task_seq,
                   story_seq, call, tasks_total_hours>>

\* The file as _ensure_data_file_exists makes it, nobody calling.
InitTaskManager ==
    /\ pc = "file"
    /\ data_file = EmptyFile
    /\ procs = [c \in Callers |-> Idle]
    /\ response = NoResponse
    /\ scope = TasksScope
    /\ wire = <<>> /\ recv_calls = 0 /\ wrapped = FALSE /\ body_parts = <<>>
    /\ body_received = FALSE /\ delivered = <<>> /\ exc_errors = <<>>
    /\ request_json = <<>> /\ strict_task = <<>> /\ llm_calls = <<>>
    /\ db_tasks = <<>> /\ db_user_stories = {} /\ task_seq = 0 /\ story_seq = 0
    /\ call = NoCall /\ tasks_total_hours = <<>>

\* Calls one after the other: a caller moves only while no other caller is
\* inside a call.
NextTaskManager ==
    \E c \in Callers :
        /\ \A d \in Callers \ {c} : procs[d].pc \in {"idle", "returned"}
        /\ \/ CallTaskManager(c) /\ UNCHANGED <<pc, response, httpVars, aiVars, db_tasks,
                                               db_user_stories, task_seq, story_seq, call,
                                               tasks_total_hours>>
           \/ TaskManagerStep(c)

SpecTaskManager == InitTaskManager /\ [][NextTaskManager]_vars

\* The ids stored in the file.
StoredIds == {data_file.Tasks[i].id : i \in DOMAIN data_file.Tasks}

\* C21: through calls of create_task, update_task and delete_task made one
\* after the other, the stored tasks have pairwise distinct ids, each at most
\* last_id; last_id never decreases; an id that create_task assigns is above
\* the last_id it found (so above every id assigned before, freed or not),
\* and only assigned ids enter the file; update_task leaves the ids as they
\* were.
C21_UniqueIds ==
    /\ [](/\ \A i, j \in DOMAIN data_file.Tasks :
                i # j => data_file.Tasks[i].id # data_file.Tasks[j].id
          /\ \A i \in DOMAIN data_file.Tasks : data_file.Tasks[i].id <= data_file.last_id)
    /\ [][/\ data_file'.last_id >= data_file.last_id
          /\ \A c \in {"a", "b"} :
                /\ (procs'[c].new_id # procs[c].new_id /\ procs'[c].new_id # 0)
                      => /\ procs'[c].new_id > data_file.last_id
                         /\ procs'[c].new_id = data_file'.last_id
                         /\ procs'[c].new_id \notin StoredIds
                /\ (procs[c].pc = "save_write" /\ procs'[c].pc = "returned")
                      => /\ procs[c].op = "create_task" =>
                               StoredIds' = StoredIds \cup {procs[c].new_id}
                         /\ procs[c].op = "update_task" =>
                               IdsOf(data_file'.Tasks) = IdsOf(data_file.Tasks)
                         /\ procs[c].op = "delete_task" =>
                               StoredIds' = StoredIds \ {procs[c].task_id}]_vars

\* Three tasks were created and the second deleted: ids 1 and 3 are stored.
C21_Witness ==
    /\ data_file.last_id = 3
    /\ IdsOf(data_file.Tasks) = <<1, 3>>
    /\ \A c \in {"a", "b"} : procs[c].pc \in {"idle", "returned"}

\* Files the sequential calls leave behind: empty, one task, or one task
\* left after the first of two was deleted.
StableFiles ==
    { EmptyFile,
      [Tasks |-> <<[id |-> 1, title |-> <<"a">>]>>, last_id |-> 1],
      [Tasks |-> <<[id |-> 2, title |-> <<"b">>]>>, last_id |-> 2] }

\* Two callers have each just entered create_task.
InitTaskManagerRace ==
    /\ pc = "file"
    /\ data_file \in StableFiles
    /\ procs = [c \in Callers |->
                   [Idle EXCEPT !.pc = "load", !.op = "create_task", !.title = <<c>>]]
    /\ response = NoResponse
    /\ scope = TasksScope
    /\ wire = <<>> /\ recv_calls = 0 /\ wrapped = FALSE /\ body_parts = <<>>
    /\ body_received = FALSE /\ delivered = <<>> /\ exc_errors = <<>>
    /\ request_json = <<>> /\ strict_task = <<>> /\ llm_calls = <<>>
    /\ db_tasks = <<>> /\ db_user_stories = {} /\ task_seq = 0 /\ story_seq = 0
    /\ call = NoCall /\ tasks_total_hours = <<>>

\* The steps of the two calls in any order.
NextTaskManagerRace == \E c \in Callers : TaskManagerStep(c)

SpecTaskManagerRace == InitTaskManagerRace /\ [][NextTaskManagerRace]_vars

\* C30: once two interleaved create_task calls have both returned, their
\* tasks have distinct ids and both are in the file.
C30_NoLostCreate ==
    (\A c \in {"a", "b"} : procs[c].pc = "returned") =>
        /\ procs["a"].new_id # procs["b"].new_id
        /\ \A c \in {"a", "b"} :
              \E i \in DOMAIN data_file.Tasks :
                  data_file.Tasks[i] = [id |-> procs[c].new_id, title |-> <<c>>]

\* What does hold of two interleaved calls: each returns an id above the
\* last_id the file had, and the file ends with at least one of the tasks.
C30_SomeCreateKept ==
    (\A c \in {"a", "b"} : procs[c].pc = "returned") =>
        \E c \in {"a", "b"} : \E i \in DOMAIN data_file.Tasks :
            data_file.Tasks[i] = [id |-> procs[c].new_id, title |-> <<c>>]

-----------------------------------------------------------------------------
\* Further properties of the validation handler.

\* The fields but id of the schema the endpoint of a scope declares for its
\* body: task_create and task_update on /tasks, task_ai_input on /ai/tasks.
EndpointFieldNames ==
    IF StartsWith(scope.path, <<"/", "ai", "/">>)
    THEN <<"title", "description", "priority", "effort_hours", "status", "assigned_to",
           "category", "risk_analysis", "risk_mitigation">>
    ELSE <<"title", "description", "priority", "effort_hours", "status", "assigned_to",
           "category", "risk_analysis", "risk_mitigation", "user_story_id">>

\* C22: the fields the handler lists as missing are those of the schema of
\* the endpoint whose validation failed (all but id) that are no key of the
\* body: of task_create for POST /tasks, of task_update for PUT /tasks/{id}.
C22_RequiredFromEndpointSchema ==
    (pc = "done" /\ ~FormatClauseInMsg) =>
        LET absent == SelectSeq(EndpointFieldNames, LAMBDA f : ~ContainerHas(f))
        IN  IF absent = <<>> THEN ~MissingClauseInMsg ELSE MsgListsMissing(absent)

\* What the handler does instead: on /tasks too it lists the fields of class
\* task of task_model.py, which has no user_story_id.
C22_RequiredFromTaskModel ==
    (pc = "done" /\ ~FormatClauseInMsg) =>
        ~Contains(response.msg, <<"user_story_id">>)


(***************************************************************************)
(* Assembly of the msg, lines 178-191 of main.py.                          *)
(***************************************************************************)
\* The numeric or enum clause a failure record stands for when the msg holds
\* no format clause: none for a record of another kind.
NumericEnumClause(err) ==
    IF "effort_hours" \in SeqToSet(err.loc)
    THEN IF err.type = <<"greater", "_", "than">>
         THEN <<"effort_hours", " debe ser mayor a 0">>
         ELSE <<>>
    ELSE IF "priority" \in SeqToSet(err.loc)
         THEN <<"priority", " debe ser uno de: ", "baja", ", ", "media", ", ", "alta",
                ", ", "bloqueante">>
    ELSE IF "status" \in SeqToSet(err.loc)
         THEN <<"status", " debe ser uno de: ", "pendiente", ", ", "en_progreso", ", ",
                "en_revision", ", ", "completada">>
    ELSE <<>>

NumericEnumClauses ==
    SelectSeq([i \in DOMAIN response.detail |-> NumericEnumClause(response.detail[i])],
              LAMBDA c : c # <<>>)

\* C23: when the msg holds no format clause it is the listing of the missing
\* fields, then a space and the numeric and enum clauses joined by "; " when
\* there are any; only those clauses when no field is missing; and the generic
\* "Datos incompletos o inválidos." exactly when there is neither a clause
\* nor a missing field.
C23_MessageAssembly ==
    (pc = "done" /\ ~FormatClauseInMsg) =>
        LET clauses == JoinWith(<<"; ">>, NumericEnumClauses)
        IN  /\ response.msg =
                  IF AbsentRequired # <<>>
                  THEN IF NumericEnumClauses # <<>>
                       THEN MissingText(AbsentRequired) \o <<" ">> \o clauses
                       ELSE MissingText(AbsentRequired)
                  ELSE IF NumericEnumClauses # <<>> THEN clauses
                  ELSE <<"Datos incompletos o inválidos.">>
            /\ (response.msg = <<"Datos incompletos o inválidos.">>)
                  <=> (AbsentRequired = <<>> /\ NumericEnumClauses = <<>>)

\* C23 witness: a msg that lists missing fields and goes on with a clause.
C23_Witness ==
    /\ pc = "done"
    /\ ~FormatClauseInMsg
    /\ StartsWith(response.msg, <<"Faltan los siguientes campos requeridos: ">>)
    /\ \/ Contains(response.msg, <<" ", "effort_hours", " debe ser mayor a 0">>)
       \/ Contains(response.msg, <<" ", "priority", " debe ser uno de: ">>)
       \/ Contains(response.msg, <<" ", "status", " debe ser uno de: ">>)

\* The generic msg was answered.
C23_WitnessGeneric ==
    pc = "done" /\ response.msg = <<"Datos incompletos o inválidos.">>


(***************************************************************************)
(* The re-scan of the raw body, lines 138-162 of main.py.                  *)
(***************************************************************************)
\* C24: on a json_invalid failure the msg holds "<field> tiene valor vacío o
\* formato inválido" for exactly the nine known fields whose key is followed
\* directly by a comma or closing brace, and "<field> tiene formato inválido:
\* debe ser texto entre comillas dobles" for exactly the fields other than
\* effort_hours that are not so followed and whose first value token is not
\* empty and starts with no double quote, comma or closing brace.  No field
\* gets both, and a field with a quoted value gets neither.
C24_RescanClauses ==
    JsonInvalidAnswered =>
        \A f \in {"title", "description", "priority", "status", "assigned_to",
                  "category", "risk_analysis", "risk_mitigation", "effort_hours"} :
            LET raw == Decode(RequestBody)
                empty == SearchEmpty(raw, f)
                m == SearchValue(raw, f)
                token == LStrip(m.group)
                unquoted == /\ f # "effort_hours"
                            /\ ~empty
                            /\ m.found
                            /\ token # <<>>
                            /\ token[1] \notin {"\"", ",", "}"}
                vacio == ClauseInMsg(<<f, " tiene valor vacío o ", "formato inválido">>)
                comillas ==
                    ClauseInMsg(<<f, " tiene ", "formato inválido",
                                  ": debe ser texto entre comillas dobles">>)
            IN  /\ vacio <=> empty
                /\ comillas <=> unquoted
                /\ ~(vacio /\ comillas)
                /\ (m.found /\ token # <<>> /\ token[1] = "\"" /\ ~empty)
                      => (~vacio /\ ~comillas)

\* C24 witness: one msg with the empty-value clause of a field and the
\* quoted-text clause of another, for a body that also holds effort_hours.
C24_Witness ==
    /\ JsonInvalidAnswered
    /\ \E f, g \in {"title", "description", "priority", "status", "assigned_to",
                     "category", "risk_analysis", "risk_mitigation"} :
          /\ ClauseInMsg(<<f, " tiene valor vacío o ", "formato inválido">>)
          /\ ClauseInMsg(<<g, " tiene ", "formato inválido",
                           ": debe ser texto entre comillas dobles">>)


(***************************************************************************)
(* The failure class of a record, lines 116-136 of main.py.                *)
(***************************************************************************)
\* The failure records about the field.
RecordsOf(f) == {i \in DOMAIN response.detail : f \in SeqToSet(response.detail[i].loc)}

\* C25: the msg holds the enum clause of priority (status) only when a
\* failure record about the field is of a category other than missing, that
\* is, the value is present and outside the allowed set; a record of
\* category missing produces no enum clause.
C25_EnumClauseOnlyForInvalidValue ==
    pc = "done" =>
        \A f \in {"priority", "status"} :
            Contains(response.msg, <<f, " debe ser uno de: ">>)
                => \E i \in RecordsOf(f) : response.detail[i].type # <<"missing">>

\* What the handler does instead: any record about priority (status),
\* whatever its category, produces the enum clause.
C25_EnumClauseForAnyRecord ==
    pc = "done" =>
        \A f \in {"priority", "status"} :
            Contains(response.msg, <<f, " debe ser uno de: ">>) <=> RecordsOf(f) # {}

\* A missing priority answered with the enum clause.
C25_MissingAnsweredAsEnum ==
    /\ pc = "done"
    /\ \E i \in RecordsOf("priority") : response.detail[i].type = <<"missing">>
    /\ \A i \in RecordsOf("priority") : response.detail[i].type = <<"missing">>
    /\ Contains(response.msg, <<"priority", " debe ser uno de: ">>)


(***************************************************************************)
(* The rewrite applied to its own result, lines 66-77 of main.py.          *)
(***************************************************************************)
\* C26: the sanitized text holds no colon followed by optional whitespace and
\* then a comma or a closing brace, and sanitizing it again gives the same
\* text.
C26_SanitizeIdempotentComplete ==
    Drained =>
        LET out == Decode(delivered[FinalIndex].body)
        IN  /\ MatchStarts(out, ",") = {}
            /\ MatchStarts(out, "}") = {}
            /\ Replaced(Replaced(out, ","), "}") = out

\* C26 witness: the body  :,:}  came out with both of its gaps filled.
C26_Witness ==
    /\ Drained
    /\ WireBody = <<":", ",", ":", "}">>
    /\ delivered[FinalIndex].body = <<":", " ", "null", ",", ":", " ", "null", "}">>


(***************************************************************************)
(* Messages that are no http.request, lines 51-78 of main.py.              *)
(***************************************************************************)
\* One read through the wrapper: a message that is no http.request reaches
\* the app as the transport gave it and leaves the parts and the flag as
\* they were; once the flag is set the read is answered with an empty
\* http.request and the transport is not read.
WrapperReadAsStated ==
    (pc = "app" /\ wrapped /\ delivered' # delivered) =>
        IF body_received
        THEN /\ delivered' =
                   Append(delivered, [type |-> "http.request", body |-> <<>>, more_body |-> FALSE])
             /\ recv_calls' = recv_calls
             /\ body_received'
        ELSE wire[recv_calls + 1].type # "http.request" =>
                /\ delivered' = Append(delivered, wire[recv_calls + 1])
                /\ ~body_received'
                /\ body_parts' = body_parts

\* A client disconnect reached the app only before the drain ended, and no
\* body was handed over after it.
NoBodyAfterDisconnect ==
    (pc = "app" /\ wrapped) =>
        \A i \in DOMAIN delivered :
            delivered[i].type = "http.disconnect" =>
                /\ ~body_received
                /\ \A j \in (i + 1)..Len(delivered) : delivered[j].type # "http.request"

\* C27: on a guarded request a message that is no http.request is forwarded
\* unchanged and never sets the drained flag, so after a disconnect in the
\* middle of the drain no sanitized body is emitted; once the body is
\* drained every later read is answered with an empty http.request and a
\* client disconnect is never forwarded.
C27_DisconnectHandling == [](NoBodyAfterDisconnect) /\ [][WrapperReadAsStated]_vars

\* C27 witness: the client disconnected after a first chunk, the app got the
\* disconnect and the flag is not set.
C27_Witness ==
    /\ pc = "app" /\ wrapped
    /\ body_parts # <<>>
    /\ ~body_received
    /\ delivered # <<>>
    /\ delivered[Len(delivered)] = [type |-> "http.disconnect", body |-> <<>>, more_body |-> FALSE]

\* The client disconnected after the last chunk and the app, reading on, got
\* empty http.request messages.
C27_WitnessAfterDrain ==
    /\ Drained
    /\ Len(wire) > FinalIndex
    /\ wire[FinalIndex + 1].type = "http.disconnect"
    /\ Len(delivered) > FinalIndex


(***************************************************************************)
(* The handler behind the middleware when the body comes in chunks.        *)
(***************************************************************************)
\* Requests to a guarded and to an unguarded route, each body of at most one
\* member in every chunking, with and without a client disconnect.
InitHandlerChunked ==
    \E sc \in {AiScope, TasksScope}, b \in { Object(m) : m \in MemberLists(1, 1) } :
        \E w \in Wires(b) : InitRequest(sc, w)

SpecHandlerChunked == InitHandlerChunked /\ [][NextHandler]_vars

\* C28: on a guarded request the msg of the handler never holds "<field>
\* tiene valor vacío o formato inválido", and the body the handler reads is
\* the sanitized body or empty.
C28_NoEmptyValueClauseWhenGuarded ==
    (pc = "done" /\ wrapped) =>
        /\ ~Contains(response.msg, <<" tiene valor vacío o ", "formato inválido">>)
        /\ RequestBody \in {Replaced(Replaced(Decode(WireBody), ","), "}"), <<>>}

\* The same for a guarded request whose body came in one message.
C28_NoEmptyValueClauseWhenWhole ==
    (pc = "done" /\ wrapped /\ FinalIndex = 1) =>
        /\ ~Contains(response.msg, <<" tiene valor vacío o ", "formato inválido">>)
        /\ RequestBody \in {Replaced(Replaced(Decode(WireBody), ","), "}"), <<>>}

\* A guarded request answered with the empty-value clause of title.
C28_EmptyValueClauseWhenGuarded ==
    /\ pc = "done" /\ wrapped
    /\ Contains(response.msg, <<"title", " tiene valor vacío o ", "formato inválido">>)


(***************************************************************************)
(* POST /user-stories/{id}/generate-tasks, user_stories_router.py lines    *)
(* 134-322.  What the language model answers is an input: the list of      *)
(* tasks it proposes and, for each, whether improving and saving it        *)
(* succeeds and with which effort estimate (in tenths of an hour).         *)
(***************************************************************************)
MaxGenerated == 3

\* The estimates llm_service.estimate_effort gives a saved task.
GeneratedEfforts == {MinEffort, DefaultEffort}

RECURSIVE SeqsUpTo(_, _)
\* The sequences over a set of at most n elements.
SeqsUpTo(S, n) ==
    IF n = 0 THEN { <<>> }
    ELSE LET shorter == SeqsUpTo(S, n - 1)
         IN  shorter \cup { Append(q, x) : q \in {r \in shorter : Len(r) = n - 1}, x \in S }

\* The lists generate_tasks_for_story may return, each task with the outcome
\* of its pass through the loop of lines 223-287: an exception, or the effort
\* it is saved with.
TasksData ==
    SeqsUpTo({[raised |-> TRUE, effort_hours |-> 0]}
             \cup {[raised |-> FALSE, effort_hours |-> e] : e \in GeneratedEfforts},
             MaxGenerated)

\* Lines 186-200: the number of tasks asked of the language model.
NumTasksToGenerate(existing_tasks) == IF existing_tasks # {} THEN 1 ELSE 4

\* Line 294 when one task always suffices.
MinRequiredOne(existing_tasks) == 1

\* Line 294
MinRequired(existing_tasks) == IF existing_tasks # {} THEN 1 ELSE 2

RECURSIVE SumEffort(_, _)
\* func.sum(task.effort_hours) over the rows of a set of ids.
SumEffort(table, ids) ==
    IF ids = {} THEN 0
    ELSE LET i == CHOOSE i \in ids : TRUE
         IN  table[i].effort_hours + SumEffort(table, ids \ {i})

\* user_story_service.update_tasks_total_hours, lines 155-181.
UpdateTasksTotalHours(hours, table, user_story_id) ==
    [hours EXCEPT ![user_story_id] = SumEffort(table, TasksOfStory(table, user_story_id))]

RECURSIVE PersistEach(_, _, _, _, _)
\* Lines 223-287, from task idx on: each task that raises is skipped, each
\* other one is inserted and committed by task_service.create_task.
PersistEach(tasks_data, idx, user_story_id, table, seq) ==
    IF idx > Len(tasks_data)
    THEN [db_tasks |-> table, task_seq |-> seq]
    ELSE IF tasks_data[idx].raised
         THEN PersistEach(tasks_data, idx + 1, user_story_id, table, seq)
         ELSE PersistEach(tasks_data, idx + 1, user_story_id,
                          (seq + 1 :> [id |-> seq + 1, title |-> <<"a">>,
                                       user_story_id |-> Ref(user_story_id),
                                       effort_hours |-> tasks_data[idx].effort_hours]) @@ table,
                          seq + 1)

\* Lines 295-302: the detail of the 500 for too few tasks.
TooFewDetail == <<"No se generaron suficientes tareas.">>

\* generate_tasks_for_user_story
GenerateTasksForUserStory ==
    /\ pc = "store"
    /\ \E user_story_id \in StoryIds :
        IF user_story_id \notin db_user_stories
        THEN /\ call' = [op |-> "generate_tasks", id |-> user_story_id,
                         num_tasks |-> 0, tasks_data |-> <<>>]
             /\ response' = HttpException(HTTP_404_NOT_FOUND,
                                          <<"Historia de usuario no encontrada">>)
             /\ UNCHANGED <<db_tasks, task_seq, tasks_total_hours>>
        ELSE \E tasks_data \in TasksData :
             LET existing_tasks == TasksOfStory(db_tasks, user_story_id)
                 saved == PersistEach(tasks_data, 1, user_story_id, db_tasks, task_seq)
                 created_tasks_count == saved.task_seq - task_seq
             IN  /\ task_seq + Len(tasks_data) <= MaxGenerated
                 /\ call' = [op |-> "generate_tasks", id |-> user_story_id,
                             num_tasks |-> NumTasksToGenerate(existing_tasks),
                             tasks_data |-> tasks_data]
                 /\ db_tasks' = saved.db_tasks
                 /\ task_seq' = saved.task_seq
                 /\ IF tasks_data = <<>>
                    THEN /\ response' = HttpException(HTTP_500_INTERNAL_SERVER_ERROR,
                                                      <<"La IA no generó tareas">>)
                         /\ UNCHANGED tasks_total_hours
                    ELSE IF created_tasks_count < MinRequired(existing_tasks)
                    THEN /\ response' = HttpException(HTTP_500_INTERNAL_SERVER_ERROR,
                                                      TooFewDetail)
                         /\ UNCHANGED tasks_total_hours
                    ELSE /\ tasks_total_hours' =
                               UpdateTasksTotalHours(tasks_total_hours, saved.db_tasks,
                                                     user_story_id)
                         /\ response' = [status_code |-> 303, body |-> None]
    /\ UNCHANGED <<db_user_stories, story_seq, pc, httpVars, aiVars, fileVars>>

NextGenerate ==
    \/ GenerateTasksForUserStory
    \/ EliminarTarea
    \/ CreateUserStory
    \/ DeleteUserStory

SpecGenerate == InitDb /\ [][NextGenerate]_vars

\* The tasks of the story of the request, before and after it.
StoryTasksBefore == {i \in DOMAIN db_tasks : db_tasks[i].user_story_id = Ref(call'.id)}

StoryTasksAfter == {i \in DOMAIN db_tasks' : db_tasks'[i].user_story_id = Ref(call'.id)}

\* The tasks the list of the language model held that did not raise.
Succeeded == {k \in DOMAIN call'.tasks_data : ~call'.tasks_data[k].raised}

RECURSIVE TotalOf(_, _)
TotalOf(table, ids) ==
    IF ids = {} THEN 0
    ELSE LET i == CHOOSE i \in ids : \A j \in ids : i <= j
         IN  table[i].effort_hours + TotalOf(table, ids \ {i})

\* C29: a request for a story that exists asks for 4 tasks when the story has
\* none and for 1 otherwise; every task that did not raise is persisted, one
\* row each, and no other row changes; when fewer than the minimum (2 for a
\* story without tasks, 1 otherwise) were created the answer is 500, the rows
\* created stay and tasks_total_hours is as it was; otherwise the answer is
\* 303 and tasks_total_hours of the story is the sum of effort_hours of all
\* its tasks.
C29_GenerateTasksNotAtomic ==
    [][(call'.op = "generate_tasks" /\ call'.id \in db_user_stories) =>
          /\ call'.num_tasks = IF StoryTasksBefore = {} THEN 4 ELSE 1
          /\ DOMAIN db_tasks' \ DOMAIN db_tasks \subseteq StoryTasksAfter
          /\ Cardinality(DOMAIN db_tasks' \ DOMAIN db_tasks) = Cardinality(Succeeded)
          /\ \A i \in DOMAIN db_tasks : i \in DOMAIN db_tasks' /\ db_tasks'[i] = db_tasks[i]
          /\ IF Cardinality(Succeeded) < (IF StoryTasksBefore = {} THEN 2 ELSE 1)
             THEN /\ response'.status_code = 500
                  /\ tasks_total_hours' = tasks_total_hours
             ELSE /\ response'.status_code = 303
                  /\ tasks_total_hours'[call'.id] = TotalOf(db_tasks', StoryTasksAfter)
                  /\ \A u \in DOMAIN tasks_total_hours \ {call'.id} :
                        tasks_total_hours'[u] = tasks_total_hours[u]]_vars

\* C29 witness: a request for a story without tasks was answered 500 and left
\* one task of the story in the table, with tasks_total_hours still 0.
C29_Witness ==
    /\ call.op = "generate_tasks"
    /\ response.status_code = 500
    /\ call.id \in db_user_stories
    /\ call.num_tasks = 4
    /\ Cardinality({i \in DOMAIN db_tasks : db_tasks[i].user_story_id = Ref(call.id)}) = 1
    /\ tasks_total_hours[call.id] = 0

\* A request answered 303 with tasks_total_hours recomputed over three tasks.
C29_WitnessSuccess ==
    /\ call.op = "generate_tasks"
    /\ response.status_code = 303
    /\ Cardinality({i \in DOMAIN db_tasks : db_tasks[i].user_story_id = Ref(call.id)}) = 3
    /\ tasks_total_hours[call.id] > 0

=============================================================================
